---- MODULE Spec2Model ----
(***************************************************************************)
(* A model of the run-execution / hyperparameter-sweep engine              *)
(* (mlrun/runtimes/base.py) and of the artifact manager                    *)
(* (mlrun/artifacts.py).                                                   *)
(*                                                                         *)
(* Python objects live in a heap: heap[a] is the dict at address a.  A     *)
(* dict is a sequence of <<key, value>> pairs in insertion order; a value  *)
(* is a tagged tuple: <<"int", n>>, <<"str", s>>, <<"none">>,              *)
(* <<"time", t>>, <<"grid", g>>, <<"table", t>>, or <<"ref", a>>, a        *)
(* reference to another dict of the heap.  A nested literal (what a JSON   *)
(* text denotes) is <<"dict", entries>> with nested literals as values; a   *)
(* Python list of scalars or literals is <<"list", items>>.                *)
(***************************************************************************)
EXTENDS Integers, Sequences, FiniteSets, TLC

\* ---------------------------------------------------------------- bounds
\* the number of hyperparameter names of a grid
MaxParams == 2
\* the number of candidate values of one hyperparameter
MaxVals == 2
\* the number of children of a sweep
MaxTasks == 4
\* the number of log_artifact calls on one ArtifactManager
MaxLogs == 2
\* the number of Artifact objects the caller constructs itself
MaxArts == 1
\* the task results handed to one results_to_iter_status call
MaxResults == 3
\* the artifact summaries of one status.output_artifacts list
MaxSummaries == 2
\* the ChartArtifact objects constructed
MaxCharts == 2
\* the rows added to one chart
MaxRows == 1
\* the get_body calls on charts
MaxRenders == 2

VARIABLES
    heap,       \* the Python heap: a sequence of dicts, addressed by index
    rt,         \* the MLRuntime object (its attributes)
    grid,       \* the hyperparameter grid handed to grid_to_list / task_gen
    arr,        \* what grid_to_list(grid) returned
    gen,        \* the generator object task_gen(...) returned
    yielded,    \* the tasks the generator yielded in this pass (snapshots)
    firstpass,  \* the tasks a first, finished pass yielded
    gpc,        \* where the caller of grid_to_list / task_gen stands
    spc,        \* where the caller of process_struct / run stands, inside run() too
    task,       \* the structure handed to _run: the current child of a sweep, or the base
    resp,       \* the value _run returned / _run_many returned
    results,    \* _run_many's list of finalized results
    start,      \* _run_many's start time
    now,        \* the clock datetime.now() reads
    db,         \* the store_run calls made on the run database, in order
    files,      \* the files written by write_kfpmeta
    exc,        \* the exception that escaped from run(), "none" if none
    ret,        \* the value run() returned
    hist,       \* history: the base structure before the sweep, and per finalized
                \* child whether its run step returned state 'error' and the result
                \* as it was when appended
    am,         \* the ArtifactManager object (its attributes)
    arts,       \* the Artifact objects, addressed by index
    apc,        \* where the user of the ArtifactManager stands
    last,       \* the last log_artifact call: its arguments and what it logged
    writes,     \* the store writes of the last log_artifact call
    stored,     \* the store_artifact calls of the last log_artifact call
    aexc,       \* the exception that escaped from the last log_artifact call
    logged,     \* history: <<key, artifact>> of every log_artifact call, in order
    summary     \* what to_dict wrote into the run structure

gridVars == <<grid, arr, yielded, firstpass, gpc>>
sweepVars == <<spc, task, resp, results, start, now, db, files, exc, ret, hist>>
artVars == <<am, arts, apc, last, writes, stored, aexc, logged, summary>>
vars == <<heap, rt, gen, gridVars, sweepVars, artVars>>

\* ---------------------------------------------------------------- values
IntV(n) == <<"int", n>>
StrV(s) == <<"str", s>>
RefV(a) == <<"ref", a>>
None == <<"none">>
Lit(entries) == <<"dict", entries>>
IsRef(v) == v[1] = "ref"
IsLit(v) == v[1] = "dict"

ListV(items) == <<"list", items>>

\* Python truthiness of a value (None, '', 0, [] and {} are falsy)
Truthy(v) ==
    /\ v # None
    /\ v # StrV("")
    /\ v # IntV(0)
    /\ v # ListV(<<>>)
    /\ v # Lit(<<>>)
    /\ v # <<"grid", <<>>>>

\* ---------------------------------------------------------------- dicts
DictHas(d, k) == \E j \in 1..Len(d) : d[j][1] = k
DictIdx(d, k) == CHOOSE j \in 1..Len(d) : d[j][1] = k
\* d.get(k, default)
DictGet(d, k, default) == IF DictHas(d, k) THEN d[DictIdx(d, k)][2] ELSE default
\* d[k] = v: an existing key keeps its place, a new key goes last
DictSet(d, k, v) ==
    IF DictHas(d, k) THEN [d EXCEPT ![DictIdx(d, k)] = <<k, v>>]
    ELSE Append(d, <<k, v>>)
DictKeys(d) == [j \in 1..Len(d) |-> d[j][1]]
DictKeySet(d) == {d[j][1] : j \in 1..Len(d)}

\* v[k1][k2]... of a nested literal
RECURSIVE LitPath(_, _)
LitPath(v, path) ==
    IF Len(path) = 0 THEN v
    ELSE LitPath(DictGet(v[2], Head(path), None), Tail(path))

\* ---------------------------------------------------------------- heap
\* heap[a][k] = v
HSet(h, a, k, v) == [h EXCEPT ![a] = DictSet(h[a], k, v)]
\* the address heap[a][k] refers to
Sub(h, a, k) == DictGet(h[a], k, None)[2]
\* heap[a][k] = {}, a fresh empty dict
HNew(h, a, k) ==
    LET h1 == Append(h, <<>>)
    IN HSet(h1, a, k, RefV(Len(h1)))

RECURSIVE LoadEntries(_, _, _, _)
\* allocate the dicts nested in the entries es (from the j-th on)
LoadEntries(h, es, j, acc) ==
    IF j > Len(es) THEN <<h, acc>>
    ELSE IF IsLit(es[j][2])
         THEN LET r == LoadEntries(h, es[j][2][2], 1, <<>>)
                  h2 == Append(r[1], r[2])
              IN LoadEntries(h2, es, j + 1, Append(acc, <<es[j][1], RefV(Len(h2))>>))
         ELSE LoadEntries(h, es, j + 1, Append(acc, es[j]))

\* build fresh objects for a nested literal: <<heap', address>>
Load(h, v) ==
    LET r == LoadEntries(h, v[2], 1, <<>>)
    IN <<Append(r[1], r[2]), Len(r[1]) + 1>>

RECURSIVE Snap(_, _)
\* the nested literal of the object at a (what json.dumps / a deep comparison sees)
Snap(h, a) ==
    Lit([j \in 1..Len(h[a]) |->
            IF IsRef(h[a][j][2])
            THEN <<h[a][j][1], Snap(h, h[a][j][2][2])>>
            ELSE h[a][j]])

\* the mutant of deepcopy: copy.copy, a new top-level dict sharing the nested ones
shallowcopy(h, a) == <<Append(h, h[a]), Len(h) + 1>>
\* copy.deepcopy(struct): fresh objects all the way down
deepcopy(h, a) == Load(h, Snap(h, a))

\* ---------------------------------------------------------------- grid_to_list
\* Python's list * n
ListTimes(s, n) ==
    IF Len(s) = 0 \/ n <= 0 THEN <<>>
    ELSE [i \in 1..(Len(s) * n) |-> s[((i - 1) % Len(s)) + 1]]

\* expanded = []; for i in range(len(pv)): expanded += [pv[i]] * lastlen
Expanded(pv, lastlen) ==
    IF Len(pv) = 0 \/ lastlen <= 0 THEN <<>>
    ELSE [i \in 1..(Len(pv) * lastlen) |-> pv[((i - 1) \div lastlen) + 1]]

RECURSIVE grid_loop(_, _, _, _)
\* the body of `for pk, pv in params.items()`, from the j-th item on
grid_loop(params, j, a, lastlen) ==
    IF j > Len(params) THEN a
    ELSE LET pk == params[j][1]
             pv == params[j][2]
             a1 == [p \in 1..Len(a) |-> <<a[p][1], ListTimes(a[p][2], Len(pv))>>]
         IN grid_loop(params, j + 1, DictSet(a1, pk, Expanded(pv, lastlen)),
                      lastlen * Len(pv))

\* the mutant of grid_to_list: the earlier parameters are stretched and the
\* new one is tiled, so that the first-declared parameter varies slowest
RECURSIVE grid_loop_lex(_, _, _)
grid_loop_lex(params, j, a) ==
    IF j > Len(params) THEN a
    ELSE LET pk == params[j][1]
             pv == params[j][2]
             n == IF Len(a) = 0 THEN 1 ELSE Len(a[1][2])
             a1 == [p \in 1..Len(a) |-> <<a[p][1], Expanded(a[p][2], Len(pv))>>]
         IN grid_loop_lex(params, j + 1, DictSet(a1, pk, ListTimes(pv, n)))
grid_to_list_lex(params) == grid_loop_lex(params, 1, <<>>)

\* a mutant of grid_to_list: `expanded = pv * lastlen`, the new list tiled like the
\* earlier ones, so that all parameters cycle in step
RECURSIVE grid_loop_lockstep(_, _, _, _)
grid_loop_lockstep(params, j, a, lastlen) ==
    IF j > Len(params) THEN a
    ELSE LET pk == params[j][1]
             pv == params[j][2]
             a1 == [p \in 1..Len(a) |-> <<a[p][1], ListTimes(a[p][2], Len(pv))>>]
         IN grid_loop_lockstep(params, j + 1, DictSet(a1, pk, ListTimes(pv, lastlen)),
                               lastlen * Len(pv))
grid_to_list_lockstep(params) == grid_loop_lockstep(params, 1, <<>>, 1)

grid_to_list(params) == grid_loop(params, 1, <<>>, 1)

\* ---------------------------------------------------------------- task_gen
RECURSIVE set_params(_, _, _, _, _)
\* for key, values in params.items(): newstruct['spec']['parameters'][key] = values[i]
set_params(h, pa, params, j, i) ==
    IF j > Len(params) THEN h
    ELSE set_params(HSet(h, pa, params[j][1], params[j][2][i + 1]), pa, params, j + 1, i)

\* the generator object task_gen(struct, hyperparams) returns; its body has not run yet
task_gen(struct, hyperparams) ==
    [struct |-> struct, hyperparams |-> hyperparams, state |-> "created",
     i |-> 0, params |-> <<>>, max |-> 0]

\* the generator's prologue, run by the first next(): i = 0, params, max.
\* next(iter(params.values())) of an empty mapping raises inside the generator.
gen_enter(g) ==
    IF g.state # "created" THEN g
    ELSE LET params == grid_to_list(g.hyperparams)
         IN IF Len(params) = 0
            THEN [g EXCEPT !.state = "raised"]
            ELSE [g EXCEPT !.state = "suspended", !.i = 0, !.params = params,
                           !.max = Len(params[1][2])]

\* a mutant of gen_next: the iteration index left 0-based
gen_next_zero_based(h, g0) ==
    LET g == gen_enter(g0)
    IN IF g.state # "suspended" THEN [heap |-> h, gen |-> g, task |-> 0]
       ELSE IF ~(g.i < g.max)
       THEN [heap |-> h, gen |-> [g EXCEPT !.state = "done"], task |-> 0]
       ELSE LET c == deepcopy(h, g.struct)
                new == c[2]
                h1 == set_params(c[1], Sub(c[1], Sub(c[1], new, "spec"), "parameters"),
                                 g.params, 1, g.i)
                h2 == HSet(h1, Sub(h1, new, "metadata"), "iteration", IntV(g.i))
            IN [heap |-> h2, gen |-> [g EXCEPT !.i = g.i + 1], task |-> new]

\* one next() of the generator: [heap, gen, task], task = 0 when nothing is yielded
gen_next(h, g0) ==
    LET g == gen_enter(g0)
    IN IF g.state # "suspended" THEN [heap |-> h, gen |-> g, task |-> 0]
       ELSE IF ~(g.i < g.max)
       THEN [heap |-> h, gen |-> [g EXCEPT !.state = "done"], task |-> 0]
       ELSE LET c == deepcopy(h, g.struct)
                new == c[2]
                h1 == set_params(c[1], Sub(c[1], Sub(c[1], new, "spec"), "parameters"),
                                 g.params, 1, g.i)
                h2 == HSet(h1, Sub(h1, new, "metadata"), "iteration", IntV(g.i + 1))
            IN [heap |-> h2, gen |-> [g EXCEPT !.i = g.i + 1], task |-> new]

\* ---------------------------------------------------------------- MLRuntime
\* MLRuntime.__init__
MLRuntime(command, args, rundb, with_kfp) ==
    [struct |-> 0, command |-> command, args |-> args, handler |-> None,
     rundb |-> rundb, hyperparams |-> None, with_kfp |-> with_kfp, kind |-> StrV("")]

\* a mutant of process_struct: a new uid is set whether or not there is one
process_struct_new_uid(h, r, a, uid) ==
    LET h1 == IF ~DictHas(h[a], "metadata") THEN HNew(h, a, "metadata") ELSE h
        md == Sub(h1, a, "metadata")
        h2 == HSet(h1, md, "uid", uid)
        sp == Sub(h2, a, "spec")
        h3 == IF ~DictHas(h2[sp], "parameters") THEN HNew(h2, sp, "parameters") ELSE h2
        h4 == IF ~DictHas(h3[sp], "runtime") THEN HNew(h3, sp, "runtime") ELSE h3
        rtm == Sub(h4, sp, "runtime")
        h5 == HSet(h4, rtm, "kind", r.kind)
        h6 == IF Truthy(r.command) THEN HSet(h5, rtm, "command", r.command) ELSE h5
        r6 == IF Truthy(r.command) THEN r
              ELSE [r EXCEPT !.command = DictGet(h5[rtm], "command", None)]
        h7 == IF Truthy(r6.args) THEN HSet(h6, rtm, "args", r6.args) ELSE h6
        r7 == IF Truthy(r6.args) THEN r6
              ELSE [r6 EXCEPT !.args = DictGet(h6[rtm], "args", ListV(<<>>))]
    IN <<h7, [r7 EXCEPT !.struct = a]>>
\* MLRuntime.process_struct(struct); uid is what uuid.uuid4().hex returns
process_struct(h, r, a, uid) ==
    LET h1 == IF ~DictHas(h[a], "metadata") THEN HNew(h, a, "metadata") ELSE h
        md == Sub(h1, a, "metadata")
        h2 == IF ~Truthy(DictGet(h1[md], "uid", None)) THEN HSet(h1, md, "uid", uid) ELSE h1
        sp == Sub(h2, a, "spec")
        h3 == IF ~DictHas(h2[sp], "parameters") THEN HNew(h2, sp, "parameters") ELSE h2
        h4 == IF ~DictHas(h3[sp], "runtime") THEN HNew(h3, sp, "runtime") ELSE h3
        rtm == Sub(h4, sp, "runtime")
        h5 == HSet(h4, rtm, "kind", r.kind)
        h6 == IF Truthy(r.command) THEN HSet(h5, rtm, "command", r.command) ELSE h5
        r6 == IF Truthy(r.command) THEN r
              ELSE [r EXCEPT !.command = DictGet(h5[rtm], "command", None)]
        h7 == IF Truthy(r6.args) THEN HSet(h6, rtm, "args", r6.args) ELSE h6
        r7 == IF Truthy(r6.args) THEN r6
              ELSE [r6 EXCEPT !.args = DictGet(h6[rtm], "args", ListV(<<>>))]
    IN <<h7, [r7 EXCEPT !.struct = a]>>

\* ---------------------------------------------------------------- results_to_iter_status
NaN == <<"nan">>
TableV(rows) == <<"table", rows>>

RECURSIVE Prefixed(_, _, _)
\* the entries of dict d from the j-th on, their keys prefixed: 'param.<name>'
Prefixed(prefix, d, j) ==
    IF j > Len(d) THEN <<>>
    ELSE <<<<prefix \o d[j][1], d[j][2]>>>> \o Prefixed(prefix, d, j + 1)

\* the dict heap[a][k] refers to, {} when the key is absent: d.get(k, {})
SubDict(h, a, k) == IF DictHas(h[a], k) THEN h[Sub(h, a, k)] ELSE <<>>

\* whether building the row of task t raises KeyError (task['spec'], ['status'], ['metadata'])
iter_keyerror(h, t) ==
    ~(DictHas(h[t], "spec") /\ DictHas(h[t], "status") /\ DictHas(h[t], "metadata"))

\* the row of one task, flattened as json_normalize flattens it: the scalar
\* fields keep their place, the nested param / output fields follow
iter_struct(h, t) ==
    << <<"state", DictGet(h[Sub(h, t, "status")], "state", None)>>,
       <<"iter", DictGet(h[Sub(h, t, "metadata")], "iteration", None)>> >>
    \o Prefixed("param.", SubDict(h, Sub(h, t, "spec"), "parameters"), 1)
    \o Prefixed("output.", SubDict(h, Sub(h, t, "status"), "outputs"), 1)

RECURSIVE AddColumns(_, _, _)
AddColumns(cols, flat, j) ==
    IF j > Len(flat) THEN cols
    ELSE AddColumns(IF \E c \in 1..Len(cols) : cols[c] = flat[j][1] THEN cols
                    ELSE Append(cols, flat[j][1]), flat, j + 1)

RECURSIVE Columns(_, _, _)
\* the columns of the frame: the union of the rows' keys, in order of first occurrence
Columns(flats, j, cols) ==
    IF j > Len(flats) THEN cols
    ELSE Columns(flats, j + 1, AddColumns(cols, flats[j], 1))

\* pd.io.json.json_normalize(iter): one row per struct, NaN where a row lacks a column
json_normalize(flats) ==
    LET cols == Columns(flats, 1, <<>>)
    IN [columns |-> cols,
        values |-> [r \in 1..Len(flats) |->
                       [c \in 1..Len(cols) |-> DictGet(flats[r], cols[c], NaN)]]]

ColIdx(cols, name) == CHOOSE c \in 1..Len(cols) : cols[c] = name

RECURSIVE InsertRow(_, _, _)
\* a row sorts before another when its key is smaller; a missing key sorts last
InsertRow(sorted, row, c) ==
    IF Len(sorted) = 0 THEN <<row>>
    ELSE IF row[c][1] = "int" /\ (sorted[1][c][1] # "int" \/ row[c][2] < sorted[1][c][2])
    THEN <<row>> \o sorted
    ELSE <<sorted[1]>> \o InsertRow(Tail(sorted), row, c)

RECURSIVE SortRows(_, _, _)
SortRows(rows, j, c) ==
    IF j > Len(rows) THEN <<>>
    ELSE InsertRow(SortRows(rows, j + 1, c), rows[Len(rows) + 1 - j], c)

\* a mutant of sort_values: the frame left in input order
sort_values_unsorted(df, by) == df
\* df.sort_values(by): rows ascending by the column
sort_values(df, by) ==
    [df EXCEPT !.values = SortRows(df.values, 1, ColIdx(df.columns, by))]

\* a mutant of results_to_iter_status: tasks in state 'error' are left out of the table
results_to_iter_status_drop_errors(h, base, res) ==
    IF \E k \in 1..Len(res) : iter_keyerror(h, res[k][2])
    THEN [heap |-> h, exc |-> "KeyError"]
    ELSE LET kept == SelectSeq(res, LAMBDA t :
                         DictGet(h[Sub(h, t[2], "status")], "state", None) # StrV("error"))
             df0 == json_normalize([k \in 1..Len(kept) |-> iter_struct(h, kept[k][2])])
         IN IF ~(\E c \in 1..Len(df0.columns) : df0.columns[c] = "iter")
               \/ ~DictHas(h[base], "status")
            THEN [heap |-> h, exc |-> "KeyError"]
            ELSE LET df == sort_values(df0, "iter")
                 IN [heap |-> HSet(h, Sub(h, base, "status"), "iterations",
                                   TableV(<<df.columns>> \o df.values)),
                     exc |-> "none"]

\* results_to_iter_status(base_struct, results): [heap, exc]
results_to_iter_status(h, base, res) ==
    IF \E k \in 1..Len(res) : iter_keyerror(h, res[k][2])
    THEN [heap |-> h, exc |-> "KeyError"]
    ELSE LET df0 == json_normalize([k \in 1..Len(res) |-> iter_struct(h, res[k][2])])
         IN IF ~(\E c \in 1..Len(df0.columns) : df0.columns[c] = "iter")
            THEN [heap |-> h, exc |-> "KeyError"]
            ELSE LET df == sort_values(df0, "iter")
                 IN IF ~DictHas(h[base], "status")
                    THEN [heap |-> h, exc |-> "KeyError"]
                    ELSE [heap |-> HSet(h, Sub(h, base, "status"), "iterations",
                                        TableV(<<df.columns>> \o df.values)),
                          exc |-> "none"]

\* ---------------------------------------------------------------- write_kfpmeta
\* a str made of pieces ('v3io:///', 'data/x', '.csv'): startswith, endswith and
\* replace look at whole pieces
PathV(pieces) == <<"path", pieces>>
IsStr(v) == v[1] \in {"str", "path"}
startswith(v, prefix) == v[1] = "path" /\ Len(v[2]) > 0 /\ v[2][1] = prefix
endswith(v, suffix) == v[1] = "path" /\ Len(v[2]) > 0 /\ v[2][Len(v[2])] = suffix
\* str.replace(old, new): every occurrence
replace(v, old, new) ==
    IF v[1] = "path" THEN PathV([j \in 1..Len(v[2]) |-> IF v[2][j] = old THEN new ELSE v[2][j]])
    ELSE v

RECURSIVE get_kfp_outputs(_, _, _, _)
\* get_kfp_outputs(artifacts), from the j-th summary on: [outputs, files, exc].
\* open('/tmp/<key>', 'w') truncates the file; a write of a non-str is swallowed.
get_kfp_outputs(artifacts, j, outputs, fl) ==
    IF j > Len(artifacts) THEN [outputs |-> outputs, files |-> fl, exc |-> "none"]
    ELSE LET output == artifacts[j][2]
         IN IF ~DictHas(output, "key")
            THEN [outputs |-> outputs, files |-> fl, exc |-> "KeyError"]
            ELSE
            LET key == DictGet(output, "key", None)
                target == DictGet(output, "inline", DictGet(output, "target_path", StrV("")))
                fl1 == IF IsStr(key)
                       THEN DictSet(fl, <<"/tmp/", key>>, IF IsStr(target) THEN target ELSE StrV(""))
                       ELSE fl
            IN IF ~IsStr(target)
               THEN [outputs |-> outputs, files |-> fl1, exc |-> "AttributeError"]
               ELSE
               LET target1 == IF startswith(target, "v3io:///")
                              THEN replace(target, "v3io:///", "http://v3io-webapi:8081/")
                              ELSE target
                   viewer == DictGet(output, "viewer", StrV(""))
                   header == DictGet(output, "header", None)
                   meta == IF viewer \in {StrV("web-app"), StrV("chart")}
                           THEN <<Lit(<<<<"type", StrV("web-app")>>, <<"source", target1>>>>)>>
                           ELSE IF viewer = StrV("table") /\ Truthy(header) /\ endswith(target1, ".csv")
                           THEN <<Lit(<<<<"type", StrV("table")>>, <<"format", StrV("csv")>>,
                                        <<"header", header>>, <<"source", target1>>>>)>>
                           ELSE <<>>
               IN get_kfp_outputs(artifacts, j + 1, outputs \o meta, fl1)

\* gen_md_table(header, rows) of mlrun.utils: the markdown table of the rows
gen_md_table(header, rows) == <<"md_table", header, rows>>
\* dict_to_yaml(struct) of mlrun.utils: the YAML text of the structure
dict_to_yaml(lit) == <<"yaml", lit>>

\* the numeric outputs, as {'name': k, 'numberValue': v}
RECURSIVE Metrics(_, _)
Metrics(outputs, j) ==
    IF j > Len(outputs) THEN <<>>
    ELSE (IF outputs[j][2][1] = "int"
          THEN <<Lit(<<<<"name", StrV(outputs[j][1])>>, <<"numberValue", outputs[j][2]>>>>)>>
          ELSE <<>>) \o Metrics(outputs, j + 1)

\* a mutant of LitDel: the key is left in place
LitDel_kept(v, path2, k) == v
\* a literal without one of its keys: del d[k]
LitDel(v, path2, k) ==
    Lit([j \in 1..Len(v[2]) |->
            IF v[2][j][1] = path2
            THEN <<path2, Lit(SelectSeq(v[2][j][2][2], LAMBDA e : e[1] # k))>>
            ELSE v[2][j]])

\* MLRuntime.write_kfpmeta(struct): [files, exc]
write_kfpmeta(h, a, fl) ==
    IF ~DictHas(h[a], "status") THEN [files |-> fl, exc |-> "KeyError"]
    ELSE
    LET status == h[Sub(h, a, "status")]
        fl1 == DictSet(fl, <<"mlpipeline-metrics.json">>,
                       Lit(<<<<"metrics", ListV(Metrics(SubDict(h, Sub(h, a, "status"), "outputs"), 1))>>>>))
        oa == DictGet(status, "output_artifacts", ListV(<<>>))
        k == get_kfp_outputs(oa[2], 1, <<>>, fl1)
    IN IF k.exc # "none" THEN [files |-> k.files, exc |-> k.exc]
       ELSE
       LET has_iter == DictHas(status, "iterations")
           iter == DictGet(status, "iterations", None)
           fl2 == IF has_iter THEN DictSet(k.files, <<"/tmp/iterations">>, iter) ELSE k.files
           snap == IF has_iter THEN LitDel(Snap(h, a), "status", "iterations") ELSE Snap(h, a)
           text == <<"# Run Report">>
                   \o (IF has_iter
                       THEN <<"## Iterations", gen_md_table(iter[2][1], Tail(iter[2]))>>
                       ELSE <<>>)
                   \o <<"## Metadata", dict_to_yaml(snap)>>
           markdown == Lit(<<<<"type", StrV("markdown")>>, <<"storage", StrV("inline")>>,
                             <<"source", <<"text", text>>>>>>)
       IN [files |-> DictSet(fl2, <<"mlpipeline-ui-metadata.json">>,
                             Lit(<<<<"outputs", ListV(k.outputs \o <<markdown>>)>>>>)),
           exc |-> "none"]

\* ---------------------------------------------------------------- _post_run
TimeV(t) == <<"time", t>>

\* `not resp`: None, '' and {} are falsy
Falsy(h, rsp) ==
    \/ rsp = None
    \/ rsp = StrV("")
    \/ (IsRef(rsp) /\ Len(h[rsp[2]]) = 0)

\* a mutant of save_run: the project of the structure is not looked up
save_run_no_project(h, r, a, dbl) ==
    IF ~Truthy(r.rundb) THEN [db |-> dbl, exc |-> "none"]
    ELSE IF ~DictHas(h[a], "metadata") \/ ~DictHas(h[Sub(h, a, "metadata")], "uid")
    THEN [db |-> dbl, exc |-> "KeyError"]
    ELSE [db |-> Append(dbl, [struct |-> Snap(h, a),
                              uid |-> DictGet(h[Sub(h, a, "metadata")], "uid", None),
                              project |-> StrV("")]),
          exc |-> "none"]
\* MLRuntime._save_run(struct): [db, exc]; db is the list of the store_run calls made
save_run(h, r, a, dbl) ==
    IF ~Truthy(r.rundb) THEN [db |-> dbl, exc |-> "none"]
    ELSE IF ~DictHas(h[a], "metadata") \/ ~DictHas(h[Sub(h, a, "metadata")], "uid")
    THEN [db |-> dbl, exc |-> "KeyError"]
    ELSE [db |-> Append(dbl, [struct |-> Snap(h, a),
                              uid |-> DictGet(h[Sub(h, a, "metadata")], "uid", None),
                              project |-> DictGet(h[Sub(h, a, "metadata")], "project", StrV(""))]),
          exc |-> "none"]

\* a mutant of post_state: the state is left as the run step reported it
post_state_unset(status) == status
\* a mutant of post_state: the state is set to 'completed' whatever it was
post_state_overwrite(status) == DictSet(status, "state", StrV("completed"))
\* if resp['status'].get('state', '') != 'error': resp['status']['state'] = 'completed'
post_state(status) ==
    IF DictGet(status, "state", StrV("")) # StrV("error")
    THEN DictSet(status, "state", StrV("completed"))
    ELSE status

\* a mutant of post_run_empty: the {} is stamped with the time before it is returned
post_run_empty_stamped(h, t, dbl, fl) ==
    [heap |-> Append(h, <<<<"last_update", TimeV(t)>>>>), ret |-> RefV(Len(h) + 1),
     exc |-> "none", now |-> t + 1, db |-> dbl, files |-> fl]
\* if not resp: return {}
post_run_empty(h, t, dbl, fl) ==
    [heap |-> Append(h, <<>>), ret |-> RefV(Len(h) + 1), exc |-> "none",
     now |-> t, db |-> dbl, files |-> fl]

\* MLRuntime._post_run(resp) at time t: [heap, ret, exc, now, db, files];
\* ret is the value returned, exc the exception that escaped ("none": none)
post_run(h, r, rsp, t, dbl, fl) ==
    IF Falsy(h, rsp)
    THEN post_run_empty(h, t, dbl, fl)
    ELSE IF rsp[1] \in {"str", "path"}
    THEN [heap |-> h, ret |-> None, exc |-> "JSONDecodeError", now |-> t, db |-> dbl, files |-> fl]
    ELSE
    LET l == IF rsp[1] = "json" THEN Load(h, rsp[2]) ELSE <<h, rsp[2]>>
        h1 == l[1]
        a == l[2]
        k == IF r.with_kfp THEN write_kfpmeta(h1, a, fl) ELSE [files |-> fl, exc |-> "none"]
    IN IF k.exc # "none"
       THEN [heap |-> h1, ret |-> None, exc |-> k.exc, now |-> t, db |-> dbl, files |-> k.files]
       ELSE IF ~DictHas(h1[a], "status")
       THEN [heap |-> h1, ret |-> None, exc |-> "KeyError", now |-> t, db |-> dbl, files |-> k.files]
       ELSE
       LET st == Sub(h1, a, "status")
           h2 == [h1 EXCEPT ![st] = post_state(h1[st])]
           h3 == HSet(h2, st, "last_update", TimeV(t))
           sv == save_run(h3, r, a, dbl)
       IN [heap |-> h3, ret |-> IF sv.exc = "none" THEN RefV(a) ELSE None, exc |-> sv.exc,
           now |-> t + 1, db |-> sv.db, files |-> k.files]

\* ---------------------------------------------------------------- inputs
RECURSIVE ProdLens(_, _, _)
\* the product of the lengths of the candidate lists lo..hi of grid g
ProdLens(g, lo, hi) == IF lo > hi THEN 1 ELSE Len(g[lo][2]) * ProdLens(g, lo + 1, hi)

Names == <<"lr", "bs", "ep", "wd">>
InjSeqs(S, n) == {s \in [1..n -> S] : \A i, j \in 1..n : i # j => s[i] # s[j]}
\* candidate lists: n distinct values, ascending from the first or from the second
\* of them and wrapping around
ValLists ==
    {[i \in 1..n |-> IntV(((i - 1 + r) % n) + 1)] : n \in 1..MaxVals, r \in 0..1}
    \cup {<<>>}
\* the grid of the end-to-end scenario (lr counted in tenths)
ExampleGrid == << <<"lr", <<IntV(1), IntV(2)>>>>, <<"bs", <<IntV(8), IntV(16)>>>> >>
Grids ==
    {ExampleGrid} \cup
    UNION {{[j \in 1..k |-> <<ns[j], vs[j]>>] :
               ns \in InjSeqs({Names[i] : i \in 1..MaxParams}, k),
               vs \in [1..k -> ValLists]}
           : k \in 0..MaxParams}

\* run structures a caller hands to process_struct: a bare one, and one that
\* names its uid, project and parameters
InputStructs ==
    {Lit(<<<<"spec", Lit(<<>>)>>>>),
     Lit(<<<<"metadata", Lit(<<<<"uid", StrV("u0")>>, <<"project", StrV("p")>>>>)>>,
           <<"spec", Lit(<<<<"parameters", Lit(<<<<"x", IntV(5)>>, <<"lr", IntV(7)>>>>)>>>>)>>>>)}

GridInputs == {s \in InputStructs : DictHas(s[2], "metadata") /\ DictHas(LitPath(s, <<"spec">>)[2], "parameters")}

\* the heap and runtime after process_struct of an input structure
Processed(input, r) ==
    LET l == Load(<<>>, input)
    IN process_struct(l[1], r, l[2], StrV("u1"))

\* the variables of run() while nothing runs
SweepIdle ==
    /\ spc = "idle"
    /\ task = 0
    /\ resp = None
    /\ results = <<>>
    /\ start = 0
    /\ now = 1
    /\ db = <<>>
    /\ files = <<>>
    /\ exc = "none"
    /\ ret = None
    /\ hist = [base0 |-> None, children |-> <<>>]

\* the variables of the ArtifactManager while there is none
ArtIdle ==
    /\ am = None
    /\ arts = <<>>
    /\ apc = "idle"
    /\ last = None
    /\ writes = <<>>
    /\ stored = <<>>
    /\ aexc = "none"
    /\ logged = <<>>
    /\ summary = None

\* the variables of the direct callers of grid_to_list / task_gen while idle
GridIdle ==
    /\ grid = <<>>
    /\ arr = <<>>
    /\ yielded = <<>>
    /\ firstpass = <<>>
    /\ gpc = "idle"

\* ---------------------------------------------------------------- SpecGrid
\* grid_to_list and task_gen called directly, the generator run twice
GridInit ==
    /\ grid \in Grids
    /\ \E input \in GridInputs :
          \E p \in {Processed(input, MLRuntime(StrV(""), ListV(<<>>), StrV(""), FALSE))} :
             heap = p[1] /\ rt = p[2]
    /\ arr = <<>>
    /\ gen = task_gen(0, <<>>)
    /\ yielded = <<>>
    /\ firstpass = <<>>
    /\ gpc = "start"
    /\ SweepIdle
    /\ ArtIdle

\* arr = grid_to_list(grid)
GridToList ==
    /\ gpc = "start"
    /\ arr' = grid_to_list(grid)
    /\ gpc' = "expanded"
    /\ UNCHANGED <<heap, rt, grid, gen, yielded, firstpass, sweepVars, artVars>>

\* gen = task_gen(struct, grid)
TaskGenCall ==
    /\ gpc = "expanded"
    /\ gen' = task_gen(rt.struct, grid)
    /\ gpc' = "pass1"
    /\ UNCHANGED <<heap, rt, grid, arr, yielded, firstpass, sweepVars, artVars>>

\* next(gen)
TaskGenNext ==
    /\ gpc \in {"pass1", "pass2"}
    /\ \E r \in {gen_next(heap, gen)} :
          /\ heap' = r.heap
          /\ gen' = r.gen
          /\ yielded' = IF r.task # 0 THEN Append(yielded, Snap(r.heap, r.task)) ELSE yielded
          /\ gpc' = CASE r.gen.state = "raised" -> "raised"
                      [] r.gen.state = "done" -> IF gpc = "pass1" THEN "done1" ELSE "done2"
                      [] OTHER -> gpc
    /\ UNCHANGED <<rt, grid, arr, firstpass, sweepVars, artVars>>

\* task_gen called again on the same inputs
TaskGenAgain ==
    /\ gpc = "done1"
    /\ firstpass' = yielded
    /\ yielded' = <<>>
    /\ gen' = task_gen(rt.struct, grid)
    /\ gpc' = "pass2"
    /\ UNCHANGED <<heap, rt, grid, arr, sweepVars, artVars>>

GridNext == GridToList \/ TaskGenCall \/ TaskGenNext \/ TaskGenAgain
SpecGrid == GridInit /\ [][GridNext]_vars

\* ---------------------------------------------------------------- SpecSweep
\* process_struct, then run(): a single run or a sweep
GridV(g) == <<"grid", g>>

\* sweep grids: one name with any number of candidates 1..d, or two names with at
\* least two candidates each, at most MaxTasks points in all
CanonGrid(ds) == [j \in 1..Len(ds) |-> <<Names[j], [i \in 1..ds[j] |-> IntV(i)]>>]
SweepGrids ==
    {g \in {CanonGrid(ds) : ds \in [1..1 -> 0..MaxTasks] \cup [1..2 -> 2..MaxTasks]} :
        ProdLens(g, 1, Len(g)) <= MaxTasks}

\* uuid.uuid4().hex: what the first call of a process returns, and a later call
NewUids == {StrV("u1")}
LaterUids == {StrV("u2")}

\* the states a run step leaves in status ("absent": no state key)
EntryStates == {"absent", "running", "completed", "aborted", "error"}

\* what the run step (_run, supplied by the runtime subclass) does: a handler
\* runtime works on the structure it is given and returns it, a local runtime
\* returns the text its command printed; either may return nothing
RunOutcomes(kind) ==
    IF kind = StrV("handler")
    THEN {[form |-> "obj", state |-> st, scribble |-> FALSE] : st \in EntryStates}
         \cup {[form |-> "obj", state |-> "running", scribble |-> TRUE],
               [form |-> "none", state |-> "absent", scribble |-> FALSE]}
    ELSE {[form |-> "json", state |-> st, scribble |-> FALSE] : st \in EntryStates}
         \cup {[form |-> "badstr", state |-> "absent", scribble |-> FALSE],
               [form |-> "none", state |-> "absent", scribble |-> FALSE]}

\* the status a run step reports: outputs unless it failed, and its state
StatusLit(o) ==
    Lit((IF o.state = "error" THEN <<>> ELSE <<<<"outputs", Lit(<<<<"acc", IntV(10)>>>>)>>>>)
        \o (IF o.state = "absent" THEN <<>> ELSE <<<<"state", StrV(o.state)>>>>))

\* the heap after a run step with outcome o worked on the structure at t: it sets
\* status, and when it scribbles it also overwrites every parameter, adds a
\* label to metadata and a key to spec
RECURSIVE Scribble(_, _, _)
Scribble(h, pa, j) ==
    IF j > Len(h[pa]) THEN h
    ELSE Scribble(HSet(h, pa, h[pa][j][1], IntV(99)), pa, j + 1)

RunEffect(h, t, o) ==
    LET l == Load(h, StatusLit(o))
        h1 == HSet(l[1], t, "status", RefV(l[2]))
        h2 == IF o.scribble
              THEN HSet(HSet(Scribble(h1, Sub(h1, Sub(h1, t, "spec"), "parameters"), 1),
                             Sub(h1, t, "metadata"), "labels", StrV("x")),
                        Sub(h1, t, "spec"), "tmp", IntV(1))
              ELSE h1
    IN h2

\* the state key of the structure a response denotes
EntryState(h, rsp) ==
    LET v == CASE rsp[1] = "ref" /\ DictHas(h[rsp[2]], "status") ->
                     DictGet(h[Sub(h, rsp[2], "status")], "state", None)
               [] rsp[1] = "json" -> LitPath(rsp[2], <<"status", "state">>)
               [] OTHER -> None
    IN IF v = None THEN "absent" ELSE v[2]

SweepInit ==
    /\ \E input \in InputStructs, kind \in {"handler", "local"},
          rundb \in {"", "db"}, kfp \in BOOLEAN :
          /\ heap = Load(<<>>, input)[1]
          /\ rt = [MLRuntime(StrV(""), ListV(<<>>), StrV(rundb), kfp) EXCEPT !.kind = StrV(kind)]
    /\ gen = task_gen(0, <<>>)
    /\ GridIdle
    /\ ArtIdle
    /\ spc = "new"
    /\ task = 0
    /\ resp = None
    /\ results = <<>>
    /\ start = 0
    /\ now = 1
    /\ db = <<>>
    /\ files = <<>>
    /\ exc = "none"
    /\ ret = None
    /\ hist = [base0 |-> None, children |-> <<>>]

\* runtime.process_struct(struct), struct the structure the caller built; the
\* caller may hand the same structure in again before run() and after it
ProcessStruct ==
    /\ spc \in {"new", "ready", "done"}
    /\ \E uid \in (IF spc = "new" THEN NewUids ELSE LaterUids) :
          \E p \in {process_struct(heap, rt, IF spc = "new" THEN Len(heap) ELSE rt.struct, uid)} :
             heap' = p[1] /\ rt' = p[2]
    /\ spc' = IF spc = "new" THEN "ready" ELSE spc
    /\ UNCHANGED <<gen, gridVars, task, resp, results, start, now, db, files, exc, ret, hist, artVars>>

\* runtime.run(hyperparams), up to the first call of the run step:
\* _run_many reads the clock and creates the task generator
Run ==
    /\ spc = "ready"
    /\ \E hp \in {None, GridV(<<>>)} \cup {GridV(g) : g \in SweepGrids} :
          /\ rt' = [rt EXCEPT !.hyperparams = hp]
          /\ IF Truthy(hp)
             THEN /\ start' = now
                  /\ now' = now + 1
                  /\ results' = <<>>
                  /\ gen' = task_gen(rt.struct, hp[2])
                  /\ hist' = [base0 |-> Snap(heap, rt.struct), children |-> <<>>]
                  /\ spc' = "loop"
                  /\ task' = task
             ELSE /\ task' = rt.struct
                  /\ spc' = "exec1"
                  /\ UNCHANGED <<start, now, results, gen, hist>>
    /\ UNCHANGED <<heap, gridVars, resp, db, files, exc, ret, artVars>>

\* _run_many: `for task in task_gen(...)` asks the generator for the next task
SweepNext ==
    /\ spc = "loop"
    /\ \E r \in {gen_next(heap, gen)} :
          /\ heap' = r.heap
          /\ gen' = r.gen
          /\ task' = IF r.task # 0 THEN r.task ELSE task
          /\ spc' = CASE r.task # 0 -> "exec"
                      [] r.gen.state = "done" -> "aggregate"
                      [] OTHER -> "raised"
          /\ exc' = IF r.gen.state = "raised" THEN "RuntimeError" ELSE exc
    /\ UNCHANGED <<rt, gridVars, resp, results, start, now, db, files, ret, hist, artVars>>

\* resp = self._run(task): the run step of the runtime subclass
RunStep ==
    /\ spc \in {"exec", "exec1"}
    /\ \E o \in RunOutcomes(rt.kind) :
          \E h \in {IF o.form \in {"obj", "json"} THEN RunEffect(heap, task, o) ELSE heap} :
             /\ heap' = IF o.form = "obj" THEN h ELSE heap
             /\ resp' = CASE o.form = "obj" -> RefV(task)
                          [] o.form = "json" -> <<"json", Snap(h, task)>>
                          [] o.form = "badstr" -> StrV("not json")
                          [] OTHER -> None
    /\ spc' = IF spc = "exec" THEN "post" ELSE "final"
    /\ UNCHANGED <<rt, gen, gridVars, task, results, start, now, db, files, exc, ret, hist, artVars>>

\* a mutant of results_append: the result is put in front of the list
results_prepend(res, rsp) == <<rsp>> \o res
\* results.append(resp)
results_append(res, rsp) == Append(res, rsp)

\* _run_many: resp = self._post_run(resp); results.append(resp)
PostRunChild ==
    /\ spc = "post"
    /\ \E p \in {post_run(heap, rt, resp, now, db, files)} :
          /\ heap' = p.heap
          /\ now' = p.now
          /\ db' = p.db
          /\ files' = p.files
          /\ exc' = p.exc
          /\ IF p.exc = "none"
             THEN /\ results' = results_append(results, p.ret)
                  /\ hist' = [hist EXCEPT !.children =
                                 Append(@, [error |-> EntryState(heap, resp) = "error",
                                            snap |-> Snap(p.heap, p.ret[2])])]
                  /\ spc' = "loop"
             ELSE /\ spc' = "raised"
                  /\ UNCHANGED <<results, hist>>
    /\ UNCHANGED <<rt, gen, gridVars, task, resp, start, ret, artVars>>

\* _run_many after the loop: the base gets a new status and the hyperparams,
\* results_to_iter_status fills status.iterations, the base is returned
RunManyFinish ==
    /\ spc = "aggregate"
    /\ \E l \in {Load(heap, Lit(<<<<"start_time", TimeV(start)>>>>))} :
       \E h1 \in {HSet(l[1], rt.struct, "status", RefV(l[2]))} :
       \E h2 \in {HSet(h1, Sub(h1, rt.struct, "spec"), "hyperparams", rt.hyperparams)} :
       \E r \in {results_to_iter_status(h2, rt.struct, results)} :
          /\ heap' = r.heap
          /\ exc' = r.exc
          /\ resp' = IF r.exc = "none" THEN RefV(rt.struct) ELSE resp
          /\ spc' = IF r.exc = "none" THEN "final" ELSE "raised"
    /\ UNCHANGED <<rt, gen, gridVars, task, results, start, now, db, files, ret, hist, artVars>>

\* run(): return self._post_run(resp)
PostRunFinal ==
    /\ spc = "final"
    /\ \E p \in {post_run(heap, rt, resp, now, db, files)} :
          /\ heap' = p.heap
          /\ now' = p.now
          /\ db' = p.db
          /\ files' = p.files
          /\ exc' = p.exc
          /\ ret' = p.ret
          /\ spc' = IF p.exc = "none" THEN "done" ELSE "raised"
    /\ UNCHANGED <<rt, gen, gridVars, task, resp, results, start, hist, artVars>>

SweepNext_ == ProcessStruct \/ Run \/ SweepNext \/ RunStep \/ PostRunChild
                \/ RunManyFinish \/ PostRunFinal
SpecSweep == SweepInit /\ [][SweepNext_]_vars

\* ---------------------------------------------------------------- artifacts.py
\* Python's `a or b`
Or(a, b) == IF Truthy(a) THEN a ELSE b

\* Artifact.__init__
Artifact(key, body, src_path, target_path, tag, viewer) ==
    [key |-> key, tag |-> tag, target_path |-> target_path, src_path |-> src_path,
     body |-> body, description |-> StrV(""), viewer |-> viewer, sources |-> ListV(<<>>),
     execution |-> None, hash |-> None, kind |-> ""]

\* a mutant of get_body: the artifact never has a body of its own
get_body_none(item) == None
\* Artifact.get_body
get_body(item) == item.body

\* uxjoin(base, path) of mlrun.utils: the path under the base directory
uxjoin(base, path) == StrV(base[2] \o "/" \o path)

\* the local files os.path.isfile finds
LocalFiles == {StrV("f.bin"), StrV("model")}

\* ArtifactManager.__init__
ArtifactManager(out_path, has_db) ==
    [out_path |-> out_path, artifact_db |-> has_db, calc_hash |-> TRUE,
     input_artifacts |-> <<>>, output_artifacts |-> <<>>, outputs_spec |-> <<>>]

RECURSIVE from_dict_loop(_, _, _)
\* for item in out_list: self.outputs_spec[item['key']] = item.get('path')
from_dict_loop(outputs_spec, out_list, j) ==
    IF j > Len(out_list) THEN outputs_spec
    ELSE from_dict_loop(DictSet(outputs_spec, DictGet(out_list[j][2], "key", None)[2],
                                DictGet(out_list[j][2], "path", None)),
                        out_list, j + 1)

\* ArtifactManager.from_dict(struct)
from_dict(m, struct) ==
    LET out_list == DictGet(struct[2], "output_artifacts", None)
    IN [m EXCEPT !.out_path = DictGet(struct[2], "output_path", m.out_path),
                 !.outputs_spec = IF Truthy(out_list) /\ out_list[1] = "list"
                                  THEN from_dict_loop(@, out_list[2], 1) ELSE @]

\* a mutant of resolve_target: the caller's target_path is preferred to the override
resolve_target_arg_first(m, key, target_path) ==
    LET t1 == IF DictHas(m.outputs_spec, key)
              THEN Or(target_path, DictGet(m.outputs_spec, key, None))
              ELSE target_path
    IN IF ~Truthy(t1) THEN uxjoin(m.out_path, key) ELSE t1

\* log_artifact: find the target path from defaults and config
resolve_target(m, key, target_path) ==
    LET t1 == IF DictHas(m.outputs_spec, key)
              THEN Or(DictGet(m.outputs_spec, key, None), target_path)
              ELSE target_path
    IN IF ~Truthy(t1) THEN uxjoin(m.out_path, key) ELSE t1

\* a mutant of register: a key already in the registry keeps its first artifact
register_if_absent(registry, key, id) ==
    IF DictHas(registry, key) THEN registry ELSE DictSet(registry, key, id)
\* a mutant of register: the registry kept as a list of every artifact logged
register_append(registry, key, id) == Append(registry, <<key, id>>)
\* self.output_artifacts[key] = item
register(registry, key, id) == DictSet(registry, key, id)

\* ArtifactManager.log_artifact(item, body, target_path, src_path, tag, viewer, upload);
\* item is <<"key", k>> (a str) or <<"art", id>> (an Artifact object); fail names the
\* collaborator that raises in this call: "store" (get_store, put or upload), "db"
\* (store_artifact) or "none".  [am, arts, key, id, writes, stored, exc]
log_artifact(m, as, item, body, target_path, src_path, tag, viewer, upload, fail) ==
    LET fresh == item[1] = "key"
        key == IF fresh THEN item[2] ELSE as[item[2]].key
        id == IF fresh THEN Len(as) + 1 ELSE item[2]
        as1 == IF fresh
               THEN Append(as, Artifact(key, body, src_path, StrV(""), tag, viewer))
               ELSE [as EXCEPT ![id].src_path = Or(src_path, @), ![id].viewer = Or(viewer, @)]
        tp0 == IF fresh THEN target_path ELSE Or(target_path, as[id].target_path)
        tp == resolve_target(m, key, tp0)
        as2 == [as1 EXCEPT ![id].target_path = tp, ![id].tag = Or(tag, Or(@, StrV("exec-tag")))]
        m1 == [m EXCEPT !.output_artifacts = register(@, key, id)]
        b == Or(body, get_body(as2[id]))
        sp == Or(src_path, StrV(key))
        w == IF ~upload \/ fail = "store" THEN <<>>
             ELSE IF Truthy(b) THEN <<[op |-> "put", path |-> tp, data |-> b]>>
             ELSE IF sp \in LocalFiles THEN <<[op |-> "upload", path |-> tp, data |-> sp]>>
             ELSE <<>>
    IN IF upload /\ fail = "store"
       THEN [am |-> m1, arts |-> as2, key |-> key, id |-> id, writes |-> w, stored |-> <<>>,
             exc |-> "StorageError"]
       ELSE IF ~m.artifact_db
       THEN [am |-> m1, arts |-> as2, key |-> key, id |-> id, writes |-> w, stored |-> <<>>,
             exc |-> "none"]
       ELSE
       LET as3 == [as2 EXCEPT ![id].sources = IF ~Truthy(@) THEN ListV(<<StrV("in1")>>) ELSE @,
                              ![id].execution = Lit(<<<<"uid", StrV("u1")>>>>)]
       IN [am |-> m1, arts |-> as3, key |-> key, id |-> id, writes |-> w,
           stored |-> IF fail = "db" THEN <<>>
                      ELSE <<[key |-> key, item |-> id, tag |-> as3[id].tag,
                              project |-> StrV("proj")]>>,
           exc |-> IF fail = "db" THEN "PersistenceError" ELSE "none"]

\* Artifact.base_dict() through ModelObj.to_dict of mlrun.utils: the summary of an artifact
base_dict(item) ==
    Lit(<<<<"key", StrV(item.key)>>, <<"src_path", item.src_path>>,
          <<"target_path", item.target_path>>, <<"viewer", item.viewer>>>>)

\* ArtifactManager.to_dict(struct): what it writes into struct['spec'] and struct['status']
to_dict(m, as) ==
    [spec_output_artifacts |->
        [j \in 1..Len(m.outputs_spec) |->
            Lit(<<<<"key", StrV(m.outputs_spec[j][1])>>, <<"path", m.outputs_spec[j][2]>>>>)],
     spec_output_path |-> m.out_path,
     status_output_artifacts |->
        [j \in 1..Len(m.output_artifacts) |-> base_dict(as[m.output_artifacts[j][2]])]]

\* ---------------------------------------------------------------- SpecArt
\* the spec sections handed to from_dict: none, and one declaring an override for
\* 'report' and an entry without a path for 'model'
ArtSpecs ==
    {Lit(<<>>),
     Lit(<<<<"output_artifacts",
             ListV(<<Lit(<<<<"key", StrV("report")>>, <<"path", StrV("/custom/report.html")>>>>),
                     Lit(<<<<"key", StrV("model")>>>>)>>)>>>>)}
\* the shapes of a call: nothing to write, a body, a source file, neither body nor source
ArtCalls ==
    {[upload |-> FALSE, body |-> None, src_path |-> StrV("")],
     [upload |-> TRUE, body |-> StrV("b"), src_path |-> StrV("")],
     [upload |-> TRUE, body |-> None, src_path |-> StrV("f.bin")],
     [upload |-> TRUE, body |-> None, src_path |-> StrV("")]}
\* the Artifact objects a caller constructs
CallerArtifacts ==
    {Artifact("report", None, StrV(""), StrV("/own/a"), StrV(""), StrV("")),
     Artifact("model", None, StrV("f.bin"), StrV(""), StrV(""), StrV("")),
     Artifact("model", None, StrV(""), StrV("/own/a"), StrV(""), StrV("")),
     Artifact("report", StrV("own-b"), StrV(""), StrV(""), StrV(""), StrV(""))}

\* the Artifact objects the caller constructed itself
CallerMade == Len(arts) - Cardinality({i \in 1..Len(logged) : logged[i][3]})

ArtInit ==
    /\ \E out_path \in {StrV("/out"), StrV("/data")}, has_db \in BOOLEAN :
          am = ArtifactManager(out_path, has_db)
    /\ arts = <<>>
    /\ apc = "new"
    /\ last = None
    /\ writes = <<>>
    /\ stored = <<>>
    /\ aexc = "none"
    /\ logged = <<>>
    /\ summary = None
    /\ heap = <<>>
    /\ rt = None
    /\ gen = task_gen(0, <<>>)
    /\ GridIdle
    /\ SweepIdle

\* manager.from_dict(struct['spec'])
FromDict ==
    /\ apc = "new"
    /\ \E struct \in ArtSpecs : am' = from_dict(am, struct)
    /\ apc' = "ready"
    /\ UNCHANGED <<heap, rt, gen, gridVars, sweepVars, arts, last, writes, stored, aexc,
                   logged, summary>>

\* the caller constructs an Artifact
NewArtifact ==
    /\ apc = "ready"
    /\ CallerMade < MaxArts
    /\ \E item \in CallerArtifacts : arts' = Append(arts, item)
    /\ UNCHANGED <<heap, rt, gen, gridVars, sweepVars, am, apc, last, writes, stored, aexc,
                   logged, summary>>

\* manager.log_artifact(...)
LogArtifact ==
    /\ apc = "ready"
    /\ Len(logged) < MaxLogs
    /\ \E item \in {<<"key", k>> : k \in {"report", "model"}}
                     \cup {<<"art", i>> : i \in 1..Len(arts)},
          call \in ArtCalls, target_path \in {StrV(""), StrV("/t/x")}, tag \in {StrV("")},
          viewer \in {StrV("")},
          fail \in {"none", "store", "db"} :
          /\ fail = "store" => call.upload
          /\ fail = "db" => am.artifact_db
          /\ \E r \in {log_artifact(am, arts, item, call.body, target_path, call.src_path, tag,
                                    viewer, call.upload, fail)} :
                /\ am' = r.am
                /\ arts' = r.arts
                /\ writes' = r.writes
                /\ stored' = r.stored
                /\ aexc' = r.exc
                /\ logged' = Append(logged, <<r.key, r.id, item[1] = "key">>)
                /\ last' = [key |-> r.key, id |-> r.id, target_path |-> target_path,
                            own |-> IF item[1] = "art" THEN arts[item[2]].target_path
                                    ELSE StrV(""),
                            src_path |-> call.src_path, body |-> call.body, tag |-> tag,
                            upload |-> call.upload, fail |-> fail]
    /\ UNCHANGED <<heap, rt, gen, gridVars, sweepVars, apc, summary>>

\* manager.to_dict(struct)
ToDict ==
    /\ apc = "ready"
    /\ summary' = to_dict(am, arts)
    /\ apc' = "dumped"
    /\ UNCHANGED <<heap, rt, gen, gridVars, sweepVars, am, arts, last, writes, stored,
                   aexc, logged>>

ArtNext == FromDict \/ NewArtifact \/ LogArtifact \/ ToDict
SpecArt == ArtInit /\ [][ArtNext]_vars

\* ---------------------------------------------------------------- SpecIter
\* the result of one task with iteration index i: its state, and the parameters and
\* outputs it carries (none, some, or names no other result has)
TaskResult(i, state, parameters, outputs) ==
    Lit(<<<<"metadata", Lit(<<<<"iteration", IntV(i)>>>>)>>,
          <<"spec", Lit(parameters)>>,
          <<"status", Lit(<<<<"state", StrV(state)>>>> \o outputs)>>>>)
TaskResults(i) ==
    {TaskResult(i, "completed",
                <<<<"parameters", Lit(<<<<"lr", IntV(1)>>>>)>>>>,
                <<<<"outputs", Lit(<<<<"acc", IntV(9)>>>>)>>>>),
     TaskResult(i, "error",
                <<<<"parameters", Lit(<<<<"lr", IntV(2)>>, <<"bs", IntV(8)>>>>)>>>>,
                <<>>),
     TaskResult(i, "completed",
                <<>>,
                <<<<"outputs", Lit(<<<<"loss", IntV(3)>>>>)>>>>),
     TaskResult(i, "completed",
                <<<<"parameters", Lit(<<<<"bs", IntV(16)>>>>)>>>>,
                <<<<"outputs", Lit(<<<<"acc", IntV(7)>>, <<"loss", IntV(1)>>>>)>>>>)}

\* the iteration index of the task result at address t
IterOf(h, t) == DictGet(h[Sub(h, t, "metadata")], "iteration", None)

\* the base structure as _run_many hands it over: processed, its status holding the
\* start time only
IterInit ==
    /\ \E input \in GridInputs :
          \E p \in {Processed(input, MLRuntime(StrV(""), ListV(<<>>), StrV(""), FALSE))} :
          \E l \in {Load(p[1], Lit(<<<<"start_time", TimeV(0)>>>>))} :
             /\ heap = HSet(l[1], p[2].struct, "status", RefV(l[2]))
             /\ rt = p[2]
    /\ gen = task_gen(0, <<>>)
    /\ GridIdle
    /\ ArtIdle
    /\ spc = "collect"
    /\ task = 0
    /\ resp = None
    /\ results = <<>>
    /\ start = 0
    /\ now = 1
    /\ db = <<>>
    /\ files = <<>>
    /\ exc = "none"
    /\ ret = None
    /\ hist = [base0 |-> None, children |-> <<>>]

\* the caller appends one more task result to the list, under an index not yet used
Collect ==
    /\ spc = "collect"
    /\ Len(results) < MaxResults
    /\ \E i \in 1..MaxResults :
          /\ \A k \in 1..Len(results) : IterOf(heap, results[k][2]) # IntV(i)
          /\ \E t \in TaskResults(i) :
                \E l \in {Load(heap, t)} :
                   /\ heap' = l[1]
                   /\ results' = Append(results, RefV(l[2]))
    /\ UNCHANGED <<rt, gen, gridVars, artVars, spc, task, resp, start, now, db, files, exc,
                   ret, hist>>

\* results_to_iter_status(base_struct, results)
Aggregate ==
    /\ spc = "collect"
    /\ \E r \in {results_to_iter_status(heap, rt.struct, results)} :
          /\ heap' = r.heap
          /\ exc' = r.exc
          /\ spc' = IF r.exc = "none" THEN "aggregated" ELSE "raised"
    /\ UNCHANGED <<rt, gen, gridVars, artVars, task, resp, results, start, now, db, files,
                   ret, hist>>

IterNext == Collect \/ Aggregate
SpecIter == IterInit /\ [][IterNext]_vars

\* ---------------------------------------------------------------- SpecKfp
\* the artifact summaries of status.output_artifacts: every viewer over every
\* target_path (absent, plain, an internal URL of a csv file, a csv file, an
\* internal URL that holds the scheme a second time, and one that is no str);
\* an inline body in place of the target; tables with no, an empty and a real header
KfpTargets ==
    {None, StrV("plain"), PathV(<<"v3io:///", "x", ".csv">>), PathV(<<"/d/x", ".csv">>),
     PathV(<<"v3io:///", "a/", "v3io:///", "b">>), IntV(7)}
KfpSummary(viewer, target, inline, header) ==
    Lit(<<<<"key", StrV("art")>>>>
        \o (IF target = None THEN <<>> ELSE <<<<"target_path", target>>>>)
        \o (IF inline = None THEN <<>> ELSE <<<<"inline", inline>>>>)
        \o (IF viewer = None THEN <<>> ELSE <<<<"viewer", viewer>>>>)
        \o (IF header = None THEN <<>> ELSE <<<<"header", header>>>>))
KfpSummaries ==
    {KfpSummary(v, t, None, None) : v \in {None, StrV("web-app"), StrV("chart"), StrV("other")},
                                     t \in KfpTargets}
    \cup {KfpSummary(StrV("table"), t, None, hd) : t \in KfpTargets,
            hd \in {None, ListV(<<>>), ListV(<<StrV("c1"), StrV("c2")>>)}}
    \cup {KfpSummary(v, t, PathV(<<"body", ".csv">>), ListV(<<StrV("c1")>>)) :
             v \in {StrV("web-app"), StrV("table")}, t \in {StrV("plain"), IntV(7)}}



\* status.output_artifacts of the structure at a
OutputArtifacts(h, a) == DictGet(h[Sub(h, a, "status")], "output_artifacts", ListV(<<>>))[2]

\* a finished run structure, before its artifacts and iterations are known
KfpInit ==
    /\ \E l \in {Load(<<>>,
                     Lit(<<<<"metadata", Lit(<<<<"uid", StrV("u1")>>, <<"name", StrV("train")>>>>)>>,
                           <<"status", Lit(<<<<"state", StrV("completed")>>,
                                             <<"outputs", Lit(<<<<"acc", IntV(9)>>,
                                                                <<"note", StrV("ok")>>>>)>>>>)>>>>))} :
          /\ heap = l[1]
          /\ rt = [MLRuntime(StrV(""), ListV(<<>>), StrV(""), TRUE) EXCEPT !.struct = l[2]]
    /\ gen = task_gen(0, <<>>)
    /\ GridIdle
    /\ ArtIdle
    /\ spc = "build"
    /\ task = 0
    /\ resp = None
    /\ results = <<>>
    /\ start = 0
    /\ now = 1
    /\ db = <<>>
    /\ files = <<>>
    /\ exc = "none"
    /\ ret = None
    /\ hist = [base0 |-> None, children |-> <<>>]

\* the run logs one more artifact: its summary joins status.output_artifacts
AddSummary ==
    /\ spc = "build"
    /\ Len(OutputArtifacts(heap, rt.struct)) < MaxSummaries
    /\ \E sm \in KfpSummaries :
          heap' = HSet(heap, Sub(heap, rt.struct, "status"), "output_artifacts",
                       ListV(Append(OutputArtifacts(heap, rt.struct), sm)))
    /\ UNCHANGED <<rt, gen, gridVars, artVars, spc, task, resp, results, start, now, db,
                   files, exc, ret, hist>>

\* the run was a sweep: status.iterations holds its table
SetIterations ==
    /\ spc = "build"
    /\ ~DictHas(heap[Sub(heap, rt.struct, "status")], "iterations")
    /\ heap' = HSet(heap, Sub(heap, rt.struct, "status"), "iterations",
                     TableV(<<<<StrV("iter"), StrV("state"), StrV("param.lr")>>,
                              <<IntV(1), StrV("completed"), IntV(1)>>,
                              <<IntV(2), StrV("error"), IntV(2)>>>>))
    /\ UNCHANGED <<rt, gen, gridVars, artVars, spc, task, resp, results, start, now, db,
                   files, exc, ret, hist>>

\* get_kfp_outputs(struct['status']['output_artifacts']) called on its own
GetKfpOutputs ==
    /\ spc = "build"
    /\ \E k \in {get_kfp_outputs(OutputArtifacts(heap, rt.struct), 1, <<>>, files)} :
          /\ files' = k.files
          /\ exc' = k.exc
          /\ ret' = IF k.exc = "none" THEN ListV(k.outputs) ELSE ret
          /\ spc' = IF k.exc = "none" THEN "outputs" ELSE "raised"
    /\ UNCHANGED <<heap, rt, gen, gridVars, artVars, task, resp, results, start, now, db,
                   hist>>

\* self.write_kfpmeta(struct)
WriteKfpMeta ==
    /\ spc = "build"
    /\ \E w \in {write_kfpmeta(heap, rt.struct, files)} :
          /\ files' = w.files
          /\ exc' = w.exc
          /\ spc' = IF w.exc = "none" THEN "written" ELSE "raised"
    /\ UNCHANGED <<heap, rt, gen, gridVars, artVars, task, resp, results, start, now, db,
                   ret, hist>>

KfpNext == AddSummary \/ SetIterations \/ GetKfpOutputs \/ WriteKfpMeta
SpecKfp == KfpInit /\ [][KfpNext]_vars

\* ---------------------------------------------------------------- ChartArtifact
\* the address of the dict that is the default of the options parameter: the {}
\* of the def line is evaluated once, when the class body runs
DefaultOptions == 1

\* ChartArtifact.__init__; options is the address of the dict handed in
ChartArtifact(key, data, src_path, target_path, tag, viewer, options) ==
    [Artifact(key, None, src_path, target_path, tag, viewer) EXCEPT !.kind = "chart"]
    @@ [header |-> IF data # <<>> THEN data[1] ELSE <<>>,
        rows |-> IF data # <<>> THEN Tail(data) ELSE <<>>,
        options |-> RefV(options),
        chart |-> "LineChart"]

\* ChartArtifact.add_row
add_row(c, row) == [c EXCEPT !.rows = Append(@, row)]

\* ChartArtifact.get_body: [heap, body]; the body is the template with $data$,
\* $opts$ and $chart$ filled in
ChartArtifact_get_body(h, c) ==
    LET o == c.options[2]
        h1 == IF ~Truthy(DictGet(h[o], "title", None)) THEN HSet(h, o, "title", c.key) ELSE h
    IN [heap |-> h1,
        body |-> [data |-> <<c.header>> \o c.rows, opts |-> Snap(h1, o), chart |-> c.chart]]

\* ---------------------------------------------------------------- SpecChart

\* the module is loaded: the default dict exists, no chart does
ChartInit ==
    /\ heap = << <<>> >>
    /\ arts = <<>>
    /\ logged = <<>>
    /\ hist = <<>>
    /\ apc = "charts"
    /\ am = None
    /\ last = None
    /\ writes = <<>>
    /\ stored = <<>>
    /\ aexc = "none"
    /\ summary = None
    /\ rt = None
    /\ gen = task_gen(0, <<>>)
    /\ GridIdle
    /\ spc = "idle"
    /\ task = 0
    /\ resp = None
    /\ results = <<>>
    /\ start = 0
    /\ now = 1
    /\ db = <<>>
    /\ files = <<>>
    /\ exc = "none"
    /\ ret = None

\* ChartArtifact(key, data, options=...) or ChartArtifact(key, data): the options
\* are left out, or a dict of the caller's own with no title, an empty title or a
\* title; hist keeps the options argument of each construction
NewChart ==
    /\ apc = "charts"
    /\ Len(arts) < MaxCharts
    /\ \E key \in {StrV("loss"), StrV("acc")},
          data \in {<<>>, << <<StrV("x"), StrV("y")>>, <<IntV(1), IntV(2)>> >>},
          options \in {None, Lit(<<>>), Lit(<<<<"title", StrV("")>>, <<"width", IntV(9)>>>>),
                       Lit(<<<<"title", StrV("T")>>>>)} :
          /\ hist' = Append(hist, options)
          /\ IF options = None
             THEN /\ arts' = Append(arts, ChartArtifact(key, data, StrV(""), StrV(""), StrV(""),
                                                         StrV("chart"), DefaultOptions))
                  /\ heap' = heap
             ELSE \E l \in {Load(heap, options)} :
                     /\ arts' = Append(arts, ChartArtifact(key, data, StrV(""), StrV(""),
                                                            StrV(""), StrV("chart"), l[2]))
                     /\ heap' = l[1]
    /\ UNCHANGED <<rt, gen, gridVars, spc, task, resp, results, start, now, db, files, exc, ret,
                   am, apc, last, writes, stored, aexc, logged, summary>>

\* chart.add_row(row)
AddRow ==
    /\ apc = "charts"
    /\ \E c \in 1..Len(arts) :
          /\ Len(arts[c].rows) < MaxRows
          /\ arts' = [arts EXCEPT ![c] = add_row(arts[c], <<IntV(3), IntV(4)>>)]
    /\ UNCHANGED <<heap, rt, gen, gridVars, sweepVars, am, apc, last, writes, stored, aexc,
                   logged, summary>>

\* chart.get_body(); logged keeps which chart was rendered and the document
GetBody ==
    /\ apc = "charts"
    /\ Len(logged) < MaxRenders
    /\ \E c \in 1..Len(arts) :
          \E b \in {ChartArtifact_get_body(heap, arts[c])} :
             /\ heap' = b.heap
             /\ logged' = Append(logged, [chart |-> c, body |-> b.body])
    /\ UNCHANGED <<rt, gen, gridVars, sweepVars, am, arts, apc, last, writes, stored, aexc,
                   summary>>

ChartNext == NewChart \/ AddRow \/ GetBody
SpecChart == ChartInit /\ [][ChartNext]_vars

\* ---------------------------------------------------------------- grid claims
NonEmptyGrid(g) == Len(g) >= 1 /\ \A j \in 1..Len(g) : Len(g[j][2]) >= 1

\* the (lr, bs) pairs of the tasks yielded so far
LrBs(tasks) ==
    [k \in 1..Len(tasks) |-> <<LitPath(tasks[k], <<"spec", "parameters", "lr">>)[2],
                               LitPath(tasks[k], <<"spec", "parameters", "bs">>)[2]>>]

\* C1 as stated: the enumeration is lexicographic, the first-declared parameter
\* varying slowest and the last-declared cycling fastest, and the tasks of the grid
\* {lr: [0.1, 0.2], bs: [8, 16]} carry (0.1,8), (0.1,16), (0.2,8), (0.2,16).
C1_LexicographicOrder ==
    /\ (gpc # "start" /\ NonEmptyGrid(grid)) =>
          \A j \in 1..Len(grid) : \A p \in 1..ProdLens(grid, 1, Len(grid)) :
             arr[j][2][p] =
                grid[j][2][(((p - 1) \div ProdLens(grid, j + 1, Len(grid))) % Len(grid[j][2])) + 1]
    /\ (gpc = "done1" /\ grid = ExampleGrid) =>
          LrBs(yielded) = << <<1, 8>>, <<1, 16>>, <<2, 8>>, <<2, 16>> >>

\* C1 amended: the enumeration has the first-declared parameter cycling fastest and
\* the last-declared varying slowest (each value of a parameter is repeated as many
\* times as the product of the list lengths declared before it), and the tasks of
\* the grid {lr: [0.1, 0.2], bs: [8, 16]} carry (0.1,8), (0.2,8), (0.1,16), (0.2,16).
C1_FirstDeclaredFastest ==
    /\ (gpc # "start" /\ NonEmptyGrid(grid)) =>
          \A j \in 1..Len(grid) : \A p \in 1..ProdLens(grid, 1, Len(grid)) :
             arr[j][2][p] =
                grid[j][2][(((p - 1) \div ProdLens(grid, 1, j - 1)) % Len(grid[j][2])) + 1]
    /\ (gpc = "done1" /\ grid = ExampleGrid) =>
          LrBs(yielded) = << <<1, 8>>, <<2, 8>>, <<1, 16>>, <<2, 16>> >>

C1_Witness == gpc = "done1" /\ grid = ExampleGrid /\ Len(yielded) = 4

\* the combination read at position i across all names of an expanded grid
Combo(a, i) == [j \in 1..Len(a) |-> a[j][2][i]]

\* C2: for a grid of k >= 1 names with non-empty lists, grid_to_list returns a
\* mapping over the same names, every list of the same length N = d1*...*dk, whose
\* positions 1..N enumerate every combination of candidates exactly once.
C2_FullCartesianProduct ==
    (gpc # "start" /\ NonEmptyGrid(grid)) =>
        LET N == ProdLens(grid, 1, Len(grid))
        IN /\ DictKeys(arr) = DictKeys(grid)
           /\ \A j \in 1..Len(arr) : Len(arr[j][2]) = N
           /\ \A c \in [1..Len(grid) -> UNION {{grid[j][2][i] : i \in 1..Len(grid[j][2])}
                                               : j \in 1..Len(grid)}] :
                 (\A j \in 1..Len(grid) : \E i \in 1..Len(grid[j][2]) : c[j] = grid[j][2][i])
                 => Cardinality({i \in 1..N : Combo(arr, i) = c}) = 1

C2_Witness ==
    /\ gpc = "expanded"
    /\ Len(grid) = MaxParams
    /\ \A j \in 1..Len(grid) : Len(grid[j][2]) = MaxVals
    /\ Len(arr[1][2]) > MaxVals

\* C3: task_gen yields exactly N tasks, N the length of the expanded lists; the k-th
\* has metadata.iteration = k and spec.parameters[name] = the expanded value at
\* position k for every grid name; a second call on the same inputs yields the same.
C3_TaskGenSequence ==
    /\ \A k \in 1..Len(yielded) :
          /\ LitPath(yielded[k], <<"metadata", "iteration">>) = IntV(k)
          /\ \A j \in 1..Len(arr) :
                LitPath(yielded[k], <<"spec", "parameters", arr[j][1]>>) = arr[j][2][k]
    /\ gpc \in {"done1", "done2"} => Len(yielded) = Len(arr[1][2])
    /\ gpc = "done2" => yielded = firstpass

C3_Witness ==
    /\ gpc = "done2"
    /\ Len(yielded) = MaxVals * MaxVals
    /\ firstpass # <<>>

\* ---------------------------------------------------------------- sweep claims
InSweep == Truthy(rt.hyperparams) /\ spc \notin {"new", "ready"}
\* the number of children the sweep's grid asks for
SweepSize == ProdLens(rt.hyperparams[2], 1, Len(rt.hyperparams[2]))
\* the rows of the base structure's status.iterations
IterRows == DictGet(heap[Sub(heap, rt.struct, "status")], "iterations", None)[2]
StateOf(h, a) ==
    IF DictHas(h[a], "status") THEN DictGet(h[Sub(h, a, "status")], "state", None) ELSE None

\* C4: every task is a deep, independent clone of the base: while the sweep runs
\* the base is as it was before it, whatever the run steps did to their clones; a
\* result once appended is not changed by the later children; and after the sweep
\* the base's metadata.iteration and spec.parameters are as before it.
C4_ClonesIndependent ==
    InSweep =>
        /\ spc \in {"loop", "exec", "post"} => Snap(heap, rt.struct) = hist.base0
        /\ \A k \in 1..Len(results) : Snap(heap, results[k][2]) = hist.children[k].snap
        /\ LitPath(Snap(heap, rt.struct), <<"metadata", "iteration">>)
              = LitPath(hist.base0, <<"metadata", "iteration">>)
        /\ LitPath(Snap(heap, rt.struct), <<"spec", "parameters">>)
              = LitPath(hist.base0, <<"spec", "parameters">>)

C4_Witness ==
    /\ InSweep
    /\ spc = "done"
    /\ Len(results) >= 2
    /\ \E k \in 1..Len(results) :
          LitPath(hist.children[k].snap, <<"metadata", "labels">>) = StrV("x")
    /\ \E k \in 1..Len(results) :
          LitPath(hist.children[k].snap, <<"metadata", "labels">>) = None

\* C7: finalization of a non-empty result that returns leaves state 'error' when it
\* was 'error' on entry and 'completed' for every other entry state, and stamps
\* last_update with the time it read; for the single run, the aggregate and every
\* child of a sweep.
C7_FinalizeKeepsError ==
    [][(spc \in {"post", "final"} /\ ~Falsy(heap, resp) /\ spc' \in {"loop", "done"}) =>
          LET out == IF spc = "post" THEN results'[Len(results')] ELSE ret'
              st == heap'[Sub(heap', out[2], "status")]
          IN /\ DictGet(st, "state", None) =
                   (IF EntryState(heap, resp) = "error" THEN StrV("error") ELSE StrV("completed"))
             /\ DictGet(st, "last_update", None) = TimeV(now)]_vars

C7_Witness ==
    /\ InSweep
    /\ spc = "loop"
    /\ \E k \in 1..Len(results) :
          hist.children[k].error /\ StateOf(heap, results[k][2]) = StrV("error")
    /\ \E k \in 1..Len(results) :
          ~hist.children[k].error /\ StateOf(heap, results[k][2]) = StrV("completed")

\* C8: a child whose result has state 'error' does not abort the sweep: when run()
\* gets past the loop all N children were executed and collected, the table has N
\* data rows, row k has iter = k and state 'error' if child k returned 'error' and
\* 'completed' otherwise; and run() is only ever left by an exception when a run
\* step returned an unparsable text or nothing, or the grid had no point.
C8_ErrorDoesNotAbortSweep ==
    /\ (InSweep /\ spc \in {"final", "done"}) =>
          LET rows == IterRows
              ci == ColIdx(rows[1], "iter")
              cs == ColIdx(rows[1], "state")
          IN /\ Len(results) = SweepSize
             /\ Len(rows) = SweepSize + 1
             /\ \A k \in 1..SweepSize :
                   /\ rows[k + 1][ci] = IntV(k)
                   /\ rows[k + 1][cs] =
                         (IF hist.children[k].error THEN StrV("error") ELSE StrV("completed"))
    /\ (InSweep /\ spc = "raised") =>
          \/ resp = StrV("not json")
          \/ \E k \in 1..Len(results) : heap[results[k][2]] = <<>>
          \/ SweepSize = 0

C8_Witness ==
    /\ InSweep
    /\ spc = "done"
    /\ SweepSize = 4
    /\ \A k \in 1..4 : hist.children[k].error <=> k = 3
    /\ IterRows[4][ColIdx(IterRows[1], "state")] = StrV("error")

\* C9 as stated: in a sweep, a run step that returns a text that fails to parse is
\* fatal for that child only: run() is not left by the parse error.
C9_ParseFailureDoesNotAbortSweep ==
    ~(InSweep /\ spc = "raised" /\ exc = "JSONDecodeError")

\* ---------------------------------------------------------------- artifact claims
\* the keys logged so far
LoggedKeys == {logged[i][1] : i \in 1..Len(logged)}
\* the position of the most recent log_artifact call for a key
LatestLog(k) == CHOOSE i \in 1..Len(logged) :
                    /\ logged[i][1] = k
                    /\ \A j \in 1..Len(logged) : logged[j][1] = k => j <= i

\* C5: after every log_artifact call the artifact's target_path is the first non-empty of:
\* the outputs_spec entry of its key, the target_path argument, the artifact's own
\* target_path, and otherwise out_path joined with the key; an override for 'report' of
\* '/custom/report.html' gives that path whatever else is passed, and key 'model' without
\* override, argument or own path under out_path '/out' gives '/out/model'.
C5_TargetPrecedence ==
    logged # <<>> =>
        LET override == DictGet(am.outputs_spec, last.key, None)
            resolved == arts[last.id].target_path
        IN /\ Truthy(override) => resolved = override
           /\ ~Truthy(override) /\ Truthy(last.target_path) => resolved = last.target_path
           /\ ~Truthy(override) /\ ~Truthy(last.target_path) /\ Truthy(last.own)
                 => resolved = last.own
           /\ ~Truthy(override) /\ ~Truthy(last.target_path) /\ ~Truthy(last.own)
                 => resolved = StrV(am.out_path[2] \o "/" \o last.key)
           /\ last.key = "report" /\ override = StrV("/custom/report.html")
                 => resolved = StrV("/custom/report.html")
           /\ (last.key = "model" /\ ~Truthy(override) /\ ~Truthy(last.target_path)
                  /\ ~Truthy(last.own) /\ am.out_path = StrV("/out"))
                 => resolved = StrV("/out/model")

\* an existing Artifact with its own target_path is logged with a different target_path
\* argument under a key that has an override, and gets the override
C5_Witness ==
    /\ logged # <<>>
    /\ last.key = "report"
    /\ last.own = StrV("/own/a")
    /\ last.target_path = StrV("/t/x")
    /\ DictGet(am.outputs_spec, "report", None) = StrV("/custom/report.html")
    /\ arts[last.id].target_path = StrV("/custom/report.html")

\* C6: the registry holds exactly one entry per key ever logged, the entry of a key is
\* the artifact of the most recent call for it, a call raises only when the store or the
\* database write fails, and to_dict emits one status summary per distinct key.
C6_LastWriteWins ==
    LET registry == am.output_artifacts
    IN /\ \A i, j \in 1..Len(registry) : registry[i][1] = registry[j][1] => i = j
       /\ {registry[i][1] : i \in 1..Len(registry)} = LoggedKeys
       /\ \A i \in 1..Len(registry) : registry[i][2] = logged[LatestLog(registry[i][1])][2]
       /\ logged # <<>> /\ last.fail = "none" => aexc = "none"
       /\ apc = "dumped" =>
             /\ Len(summary.status_output_artifacts) = Cardinality(LoggedKeys)
             /\ \A k \in LoggedKeys :
                   Cardinality({j \in 1..Len(summary.status_output_artifacts) :
                       DictGet(summary.status_output_artifacts[j][2], "key", None) = StrV(k)}) = 1

\* one key is logged twice with two different artifacts, neither call raises, and the
\* summaries are emitted
C6_Witness ==
    /\ Len(logged) = 2
    /\ logged[1][1] = logged[2][1]
    /\ logged[1][2] # logged[2][2]
    /\ aexc = "none"
    /\ apc = "dumped"
    /\ Len(summary.status_output_artifacts) = 1

\* ---------------------------------------------------------------- aggregator claims
\* the names under spec.parameters (k = "parameters") or status.outputs (k = "outputs")
\* of the task result at address t
FieldsOf(h, t, section, k) == SubDict(h, Sub(h, t, section), k)
\* the columns the task results call for besides state and iter
UnionColumns ==
    UNION {{"param." \o n : n \in DictKeySet(FieldsOf(heap, results[k][2], "spec", "parameters"))}
           \cup {"output." \o n : n \in DictKeySet(FieldsOf(heap, results[k][2], "status", "outputs"))}
           : k \in 1..Len(results)}
\* the cell of task result t under a column, NaN when the task lacks the field
ExpectedCell(t, column) ==
    LET ps == Prefixed("param.", FieldsOf(heap, t, "spec", "parameters"), 1)
        os == Prefixed("output.", FieldsOf(heap, t, "status", "outputs"), 1)
    IN IF column = "state" THEN StateOf(heap, t)
       ELSE IF column = "iter" THEN IterOf(heap, t)
       ELSE IF DictHas(ps, column) THEN DictGet(ps, column, NaN)
       ELSE DictGet(os, column, NaN)

\* C10: for N >= 1 task results in any order of their iteration indices the call
\* does not raise and writes a table of N+1 rows: a header whose columns are state,
\* iter and the union of the results' param.<name> / output.<name>, each once, then
\* one row per task, ascending by iter, holding the task's value under each column
\* and NaN where the task lacks the field.
C10_IterationTable ==
    /\ (spc = "aggregated" /\ Len(results) >= 1) =>
          LET rows == IterRows
              header == rows[1]
              ci == ColIdx(header, "iter")
              N == Len(results)
          IN /\ Len(rows) = N + 1
             /\ {header[c] : c \in 1..Len(header)} = {"state", "iter"} \cup UnionColumns
             /\ \A c, d \in 1..Len(header) : header[c] = header[d] => c = d
             /\ \A r \in 2..N : rows[r][ci][2] < rows[r + 1][ci][2]
             /\ \A k \in 1..N :
                   \E r \in 2..(N + 1) :
                      /\ Len(rows[r]) = Len(header)
                      /\ \A c \in 1..Len(header) :
                            rows[r][c] = ExpectedCell(results[k][2], header[c])
    /\ spc = "raised" => Len(results) = 0

\* three results handed over with indices 3, 1, 2 are aggregated into a table whose
\* rows run 1, 2, 3 and which has an empty cell
C10_Witness ==
    /\ spc = "aggregated"
    /\ Len(results) = 3
    /\ IterOf(heap, results[1][2]) = IntV(3)
    /\ IterOf(heap, results[2][2]) = IntV(1)
    /\ IterOf(heap, results[3][2]) = IntV(2)
    /\ Len(IterRows) = 4
    /\ IterRows[2][ColIdx(IterRows[1], "iter")] = IntV(1)
    /\ \E c \in 1..Len(IterRows[1]) : IterRows[2][c] = NaN

\* ---------------------------------------------------------------- ordering claims
\* the positions of the results that are not the empty {} of a run step that
\* returned nothing
NonEmptyResults == {k \in 1..Len(results) : heap[results[k][2]] # <<>>}
\* the store_run calls made for the children collected so far
ChildCalls == [m \in 1..Cardinality(NonEmptyResults) |-> db[m]]

\* C11: the children of a sweep run one at a time in ascending iteration order: when
\* the run step of child j is about to start or has just returned, exactly the
\* children 1..j-1 are collected, in that order, each finalized (state, last_update
\* earlier than now) and, with a run database, each stored by one store_run call,
\* the calls in the same order; the collected results stay in that order afterwards.
C11_SequentialChildren ==
    InSweep =>
       /\ \A k \in NonEmptyResults :
             LET st == heap[Sub(heap, results[k][2], "status")]
             IN /\ IterOf(heap, results[k][2]) = IntV(k)
                /\ DictGet(st, "state", None) \in {StrV("completed"), StrV("error")}
                /\ DictGet(st, "last_update", None)[1] = "time"
                /\ DictGet(st, "last_update", None)[2] < now
                /\ \A i \in NonEmptyResults :
                      i < k => DictGet(heap[Sub(heap, results[i][2], "status")],
                                       "last_update", None)[2] < DictGet(st, "last_update", None)[2]
       /\ spc \in {"exec", "post"} => Len(results) = IterOf(heap, task)[2] - 1
       /\ IF Truthy(rt.rundb)
          THEN /\ Len(db) >= Cardinality(NonEmptyResults)
               /\ spc \in {"loop", "exec", "post", "aggregate"} =>
                     Len(db) = Cardinality(NonEmptyResults)
               /\ \A m \in 1..Cardinality(NonEmptyResults) :
                     \E k \in NonEmptyResults :
                        /\ Cardinality({i \in NonEmptyResults : i <= k}) = m
                        /\ ChildCalls[m].struct = Snap(heap, results[k][2])
          ELSE db = <<>>

\* the run step of child 3 is about to start, children 1 and 2 are collected and stored
C11_Witness ==
    /\ InSweep
    /\ spc = "exec"
    /\ Truthy(rt.rundb)
    /\ IterOf(heap, task) = IntV(3)
    /\ Len(results) = 2
    /\ NonEmptyResults = {1, 2}
    /\ Len(db) = 2

\* ---------------------------------------------------------------- log_artifact failure claims
\* the registry entries of a manager under key k
EntriesOf(m, k) == {j \in 1..Len(m.output_artifacts) : m.output_artifacts[j][1] = k}
\* a step that is one log_artifact call
IsLogCall == logged' # logged
\* the call of this step repeats the previous call: same key, same target_path argument,
\* the same Artifact object or again a bare key
IsRetry ==
    /\ logged # <<>>
    /\ last'.key = last.key
    /\ last'.target_path = last.target_path
    /\ logged'[Len(logged')][3] = logged[Len(logged)][3]
    /\ ~logged[Len(logged)][3] => last'.id = last.id

\* C12: a log_artifact call in which the store or the database write raises ends with
\* that exception and with the registry already updated: the key maps to the call's
\* artifact, which has its resolved target_path and its tag; after a store failure
\* store_artifact was not called; and when the call is repeated and nothing fails, it
\* does not raise and leaves one registry entry for the key, the artifact of the retry,
\* with the target_path the failed call resolved.
C12_FailureLeavesRegistryUpdated ==
    [][IsLogCall =>
          /\ last'.fail # "none" =>
                /\ aexc' = (IF last'.fail = "store" THEN "StorageError" ELSE "PersistenceError")
                /\ Cardinality(EntriesOf(am', last'.key)) = 1
                /\ DictGet(am'.output_artifacts, last'.key, 0) = last'.id
                /\ Truthy(arts'[last'.id].target_path)
                /\ Truthy(DictGet(am'.outputs_spec, last'.key, None)) =>
                      arts'[last'.id].target_path = DictGet(am'.outputs_spec, last'.key, None)
                /\ Truthy(arts'[last'.id].tag)
                /\ stored' = <<>>
                /\ last'.fail = "store" => writes' = <<>>
          /\ (IsRetry /\ last.fail # "none" /\ last'.fail = "none") =>
                /\ aexc' = "none"
                /\ Cardinality(EntriesOf(am', last'.key)) = 1
                /\ DictGet(am'.output_artifacts, last'.key, 0) = last'.id
                /\ arts'[last'.id].target_path = arts[last.id].target_path
                /\ am'.artifact_db => Len(stored') = 1]_vars

\* a bare key is logged and the store write raises (with a database configured the
\* artifact never got its execution), then the same call is made again and returns
C12_Witness ==
    /\ Len(logged) = 2
    /\ logged[1][2] = 1
    /\ arts[1].execution = None
    /\ logged[1][1] = logged[2][1]
    /\ logged[1][3] /\ logged[2][3]
    /\ last.fail = "none"
    /\ aexc = "none"
    /\ am.artifact_db
    /\ Len(stored) = 1
    /\ DictGet(am.output_artifacts, last.key, 0) = 2
    /\ arts[1].target_path = arts[2].target_path

\* ---------------------------------------------------------------- store write claims
\* the body the last call had at hand: the argument, else the artifact's own
BodyAtHand == Or(last.body, arts[last.id].body)
\* the local path the last call would upload from: the argument, else the key
Candidate == Or(last.src_path, StrV(last.key))

\* C13: a log_artifact call whose store does not raise makes at most one store write:
\* none with upload false; with upload true a put of the body at hand (the argument,
\* else the artifact's own) to the resolved path when there is one, else an upload of
\* the candidate local path when it is a file, else nothing; and in that last case a
\* call in which nothing fails returns, has registered the artifact and, with a
\* database, has stored it.
C13_AtMostOneStoreWrite ==
    (logged # <<>> /\ last.fail # "store") =>
        LET path == arts[last.id].target_path
        IN /\ Len(writes) <= 1
           /\ ~last.upload => writes = <<>>
           /\ (last.upload /\ Truthy(BodyAtHand)) =>
                 writes = <<[op |-> "put", path |-> path, data |-> BodyAtHand]>>
           /\ (last.upload /\ ~Truthy(BodyAtHand) /\ Candidate \in LocalFiles) =>
                 writes = <<[op |-> "upload", path |-> path, data |-> Candidate]>>
           /\ (last.upload /\ ~Truthy(BodyAtHand) /\ Candidate \notin LocalFiles) =>
                 /\ writes = <<>>
                 /\ last.fail = "none" =>
                       /\ aexc = "none"
                       /\ DictGet(am.output_artifacts, last.key, 0) = last.id
                       /\ am.artifact_db =>
                             /\ Len(stored) = 1
                             /\ stored[1].key = last.key
                             /\ stored[1].item = last.id

\* an Artifact that has a body of its own is logged with upload true and no body
\* argument: its body is put to the resolved path
C13_Witness ==
    /\ logged # <<>>
    /\ ~logged[Len(logged)][3]
    /\ last.upload
    /\ last.body = None
    /\ last.fail = "none"
    /\ arts[last.id].body = StrV("own-b")
    /\ Len(writes) = 1
    /\ writes[1].op = "put"

\* ---------------------------------------------------------------- UI block claims
\* the location of a summary: its 'inline' field if present, else its target_path
Location(sm) == DictGet(sm[2], "inline", DictGet(sm[2], "target_path", StrV("")))
\* the blocks one summary is to emit; in its location a leading 'v3io:///' is
\* rewritten, and nothing else of it changed
BlocksOf(sm) ==
    LET viewer == DictGet(sm[2], "viewer", None)
        header == DictGet(sm[2], "header", None)
        location == IF startswith(Location(sm), "v3io:///")
                    THEN PathV(<<"http://v3io-webapi:8081/">> \o Tail(Location(sm)[2]))
                    ELSE Location(sm)
    IN IF viewer \in {StrV("web-app"), StrV("chart")}
       THEN <<Lit(<<<<"type", StrV("web-app")>>, <<"source", location>>>>)>>
       ELSE IF viewer = StrV("table") /\ header \notin {None, ListV(<<>>)}
               /\ endswith(location, ".csv")
       THEN <<Lit(<<<<"type", StrV("table")>>, <<"format", StrV("csv")>>,
                    <<"header", header>>, <<"source", location>>>>)>>
       ELSE <<>>
RECURSIVE BlocksFrom(_, _)
\* the blocks of the summaries j.. of a list, in input order
BlocksFrom(sms, j) == IF j > Len(sms) THEN <<>> ELSE BlocksOf(sms[j]) \o BlocksFrom(sms, j + 1)

\* C14: what get_kfp_outputs returns is, in input order, one web-app block per
\* summary with viewer 'web-app' or 'chart', one table block per summary with
\* viewer 'table', a non-empty header and a location ending in '.csv', and
\* nothing for any other summary; the location is the inline field if present,
\* else the target_path, with a leading 'v3io:///' rewritten.
C14_BlocksPerSummary ==
    spc = "outputs" => ret = ListV(BlocksFrom(OutputArtifacts(heap, rt.struct), 1))

\* ---------------------------------------------------------------- malformed summary claims
\* the outputs list of the UI-metadata document, <<>> while it is not written
UiOutputs(fl) ==
    DictGet(DictGet(fl, <<"mlpipeline-ui-metadata.json">>, Lit(<<>>))[2], "outputs", ListV(<<>>))[2]
\* a summary whose location is no str
Malformed(sm) == ~IsStr(Location(sm))
\* what get_kfp_outputs gives for the well-formed summaries of a list alone
WellFormedBlocks(sms) ==
    get_kfp_outputs(SelectSeq(sms, LAMBDA sm : ~Malformed(sm)), 1, <<>>, <<>>).outputs

\* C15: with a malformed summary in status.output_artifacts, get_kfp_outputs and
\* write_kfpmeta do not raise; they emit no block for it, the blocks of every
\* well-formed summary and, in the document, the final markdown block.
C15_MalformedSkipped ==
    (/\ spc \in {"outputs", "written", "raised"}
     /\ \E j \in 1..Len(OutputArtifacts(heap, rt.struct)) :
           Malformed(OutputArtifacts(heap, rt.struct)[j]))
    => LET well == WellFormedBlocks(OutputArtifacts(heap, rt.struct))
       IN /\ exc = "none"
          /\ spc = "outputs" => ret = ListV(well)
          /\ spc = "written" =>
                /\ Len(UiOutputs(files)) = Len(well) + 1
                /\ SubSeq(UiOutputs(files), 1, Len(well)) = well
                /\ DictGet(UiOutputs(files)[Len(well) + 1][2], "type", None) = StrV("markdown")

\* ---------------------------------------------------------------- markdown block claims
IsMarkdown(block) == DictGet(block[2], "type", None) = StrV("markdown")
HasIterations(h, a) == DictHas(h[Sub(h, a, "status")], "iterations")
\* the pieces of the text of a markdown block
TextOf(block) == DictGet(block[2], "source", None)[2]

\* C16 as stated: with status.iterations the outputs list of the document ends
\* with two markdown blocks, the iteration table and then the run metadata;
\* without, with the single metadata block; every block before them is an
\* artifact block.
C16_TwoMarkdownBlocks ==
    spc = "written" =>
       LET o == UiOutputs(files)
           m == IF HasIterations(heap, rt.struct) THEN 2 ELSE 1
       IN /\ Len(o) >= m
          /\ \A j \in 1..Len(o) : IsMarkdown(o[j]) <=> j > Len(o) - m

\* C16, amended: the outputs list of the document ends with exactly one markdown
\* block and the artifact blocks come before it.  Its text is the report title,
\* then, with status.iterations, the iterations heading and the table of the
\* iteration rows, then the metadata heading and the YAML of the run structure,
\* from which status.iterations has been removed.
C16_OneMarkdownBlock ==
    spc = "written" =>
       LET o == UiOutputs(files)
           n == Len(o)
           status == heap[Sub(heap, rt.struct, "status")]
           full == Snap(heap, rt.struct)
       IN /\ n >= 1
          /\ \A j \in 1..n : IsMarkdown(o[j]) <=> j = n
          /\ SubSeq(o, 1, n - 1)
                = get_kfp_outputs(OutputArtifacts(heap, rt.struct), 1, <<>>, <<>>).outputs
          /\ DictGet(o[n][2], "storage", None) = StrV("inline")
          /\ TextOf(o[n])[1] = "# Run Report"
          /\ IF HasIterations(heap, rt.struct)
             THEN LET iter == DictGet(status, "iterations", None)[2]
                      yaml == TextOf(o[n])[5]
                  IN /\ Len(TextOf(o[n])) = 5
                     /\ TextOf(o[n])[2] = "## Iterations"
                     /\ TextOf(o[n])[3] = gen_md_table(iter[1], Tail(iter))
                     /\ TextOf(o[n])[4] = "## Metadata"
                     /\ yaml[1] = "yaml"
                     /\ ~DictHas(LitPath(yaml[2], <<"status">>)[2], "iterations")
                     /\ DictKeys(yaml[2][2]) = DictKeys(full[2])
                     /\ \A k \in DictKeySet(full[2]) :
                           k # "status" => DictGet(yaml[2][2], k, None) = DictGet(full[2], k, None)
                     /\ \A k \in DictKeySet(LitPath(full, <<"status">>)[2]) \ {"iterations"} :
                           LitPath(yaml[2], <<"status", k>>) = LitPath(full, <<"status", k>>)
             ELSE /\ Len(TextOf(o[n])) = 3
                  /\ TextOf(o[n])[2] = "## Metadata"
                  /\ TextOf(o[n])[3] = dict_to_yaml(full)
\* a sweep's structure with a web-app artifact and a table artifact was rendered:
\* two artifact blocks, then the one markdown block
C16_Witness ==
    /\ spc = "written"
    /\ HasIterations(heap, rt.struct)
    /\ Len(UiOutputs(files)) = 3
    /\ DictGet(UiOutputs(files)[1][2], "type", None) = StrV("web-app")
    /\ DictGet(UiOutputs(files)[2][2], "type", None) = StrV("table")
    /\ IsMarkdown(UiOutputs(files)[3])

\* ---------------------------------------------------------------- chart claims
\* the caller set no title for chart c: it left the options out, or handed in a
\* dict with no title or an empty one
Untitled(c) == hist[c] = None \/ ~Truthy(DictGet(hist[c][2], "title", None))

\* C17: every document get_body rendered for a chart for which no title was set
\* carries that chart's own key as the title of its options.
C17_TitleDefaultsToKey ==
    apc = "charts" =>
       \A k \in 1..Len(logged) :
          Untitled(logged[k].chart) =>
             DictGet(logged[k].body.opts[2], "title", None) = arts[logged[k].chart].key

\* ---------------------------------------------------------------- uid claims
\* metadata.uid of the structure at a, None while it has none
UidOf(h, a) ==
    IF DictHas(h[a], "metadata") THEN DictGet(h[Sub(h, a, "metadata")], "uid", None) ELSE None
\* the structure the caller built and hands to process_struct
CallerStruct == IF spc = "new" THEN Len(heap) ELSE rt.struct

\* C18: a step of process_struct gives the structure a generated uid only when
\* it has none and keeps the uid it has; no step at all (process_struct again,
\* run, the sweep's children, finalization, store_run) changes a uid once it is
\* there, and every child result of a sweep and every stored record carries it.
C18_UidAssignedOnce ==
    [][/\ Truthy(UidOf(heap, CallerStruct)) =>
             UidOf(heap', CallerStruct) = UidOf(heap, CallerStruct)
       /\ (spc = "new" /\ spc' = "ready") =>
             /\ Truthy(UidOf(heap', CallerStruct))
             /\ ~Truthy(UidOf(heap, CallerStruct)) => UidOf(heap', CallerStruct) \in NewUids
       /\ \A k \in NonEmptyResults' :
             UidOf(heap', results'[k][2]) = UidOf(heap', CallerStruct)
       /\ \A m \in 1..Len(db') : db'[m].uid = UidOf(heap', CallerStruct)
      ]_vars
\* a structure that came with its own uid was processed and swept with two
\* children, each stored, then finalized and stored
C18_Witness ==
    /\ spc = "done"
    /\ InSweep
    /\ Len(results) = 2
    /\ Len(db) = 3
    /\ UidOf(heap, rt.struct) = StrV("u0")

\* ---------------------------------------------------------------- empty result claims
\* the step is a _post_run call
IsPostRun == spc \in {"post", "final"}

\* C19: a _post_run call on an empty result (the run step returned nothing)
\* returns a new {} and does nothing else: no object that existed changes, so no
\* state and no last_update is written, no report file is written even with
\* reporting on, store_run is not called even with a run database, the clock is
\* not read and nothing is raised.
C19_EmptyResultShortCircuits ==
    [][(IsPostRun /\ resp = None) =>
          /\ heap' = Append(heap, <<>>)
          /\ IF spc = "post"
             THEN results' = Append(results, RefV(Len(heap'))) /\ ret' = ret
             ELSE ret' = RefV(Len(heap')) /\ results' = results
          /\ files' = files
          /\ db' = db
          /\ now' = now
          /\ exc' = "none"
          /\ rt' = rt
      ]_vars
\* a single run with reporting on and a run database whose run step returned
\* nothing: run() returned an empty dict, no file was written, no record stored
C19_Witness ==
    /\ spc = "done"
    /\ ~InSweep
    /\ resp = None
    /\ rt.with_kfp
    /\ Truthy(rt.rundb)
    /\ IsRef(ret) /\ heap[ret[2]] = <<>>
    /\ files = <<>>
    /\ db = <<>>

\* ---------------------------------------------------------------- empty aggregation claims
\* C20: results_to_iter_status over an empty list of results does not raise and
\* leaves in status.iterations a table with no data rows (the header at most).
C20_EmptyAggregation ==
    (spc \in {"aggregated", "raised"} /\ results = <<>>) =>
       /\ exc = "none"
       /\ DictHas(heap[Sub(heap, rt.struct, "status")], "iterations")
       /\ Len(DictGet(heap[Sub(heap, rt.struct, "status")], "iterations", None)[2]) <= 1

\* ---------------------------------------------------------------- upload source claims
\* C21: when log_artifact is given an Artifact object, with upload true, no body at
\* hand and a store that does not raise, a non-empty src_path argument is the
\* artifact's src_path afterwards, and the source of the upload is the artifact's
\* src_path (the argument, else its own), or the key when it has none: that local
\* file is uploaded to the resolved path if it exists, and nothing is written if not.
C21_ArtifactSourceUploaded ==
    (/\ logged # <<>>
     /\ ~logged[Len(logged)][3]
     /\ last.upload
     /\ last.fail # "store"
     /\ ~Truthy(BodyAtHand))
    => LET source == Or(arts[last.id].src_path, StrV(last.key))
       IN /\ Truthy(last.src_path) => arts[last.id].src_path = last.src_path
          /\ source \in LocalFiles =>
                writes = <<[op |-> "upload", path |-> arts[last.id].target_path,
                            data |-> source]>>
          /\ source \notin LocalFiles => writes = <<>>

\* ---------------------------------------------------------------- store_run claims
\* C22: in a sweep with a run database every store_run call is made under the uid
\* and the project of the base, which every child carries.  The calls made so
\* far are one per child finalized so far whose run step returned a result, in
\* ascending iteration order, and, once run() has returned and only then, one
\* more for the aggregate structure, which is the last.  When run() has returned
\* from a sweep of N children these are exactly N + 1 calls, call m being the one
\* for child m.
C22_StoreRunPerChildThenAggregate ==
    (InSweep /\ Truthy(rt.rundb)) =>
       LET n == Cardinality(NonEmptyResults)
       IN /\ Len(db) = IF spc = "done" THEN n + 1 ELSE n
          /\ \A k \in 1..Len(results) :
                k \in NonEmptyResults => UidOf(heap, results[k][2]) = UidOf(heap, rt.struct)
          /\ \A m \in 1..Len(db) :
                /\ db[m].uid = UidOf(heap, rt.struct)
                /\ db[m].project
                      = DictGet(heap[Sub(heap, rt.struct, "metadata")], "project", StrV(""))
          /\ \A k \in NonEmptyResults :
                LitPath(db[Cardinality({i \in NonEmptyResults : i <= k})].struct,
                        <<"metadata", "iteration">>) = IntV(k)
          /\ spc = "done" =>
                /\ Len(db) = SweepSize + 1
                /\ \A m \in 1..SweepSize :
                      LitPath(db[m].struct, <<"metadata", "iteration">>) = IntV(m)
                /\ db[SweepSize + 1].struct = Snap(heap, rt.struct)
\* run() has returned from a sweep of three children of a base with a project:
\* four calls, the last one holding the iteration table
C22_Witness ==
    /\ InSweep
    /\ Truthy(rt.rundb)
    /\ spc = "done"
    /\ SweepSize = 3
    /\ Len(db) = 4
    /\ db[4].project = StrV("p")
    /\ LitPath(db[4].struct, <<"status", "iterations">>) # None

\* ---------------------------------------------------------------- aggregate state claims
\* C23: when run() gets past the loop of a sweep, the status of the base holds
\* start_time and iterations only; the structure run() returns is the base, with
\* state 'completed' and last_update added by the finalization, whatever the
\* states of the children, which show in the state column of status.iterations
\* and nowhere else in the aggregate.
C23_AggregateCompleted ==
    (InSweep /\ spc \in {"final", "done"}) =>
       LET status == heap[Sub(heap, rt.struct, "status")]
           cs == ColIdx(IterRows[1], "state")
       IN /\ \A k \in 1..SweepSize :
                IterRows[k + 1][cs] = StrV("error") <=> hist.children[k].error
          /\ spc = "final" => DictKeys(status) = <<"start_time", "iterations">>
          /\ spc = "done" =>
                /\ ret = RefV(rt.struct)
                /\ DictKeys(status) = <<"start_time", "iterations", "state", "last_update">>
                /\ DictGet(status, "state", None) = StrV("completed")
\* run() has returned from a sweep of two children that both ended in 'error'
C23_Witness ==
    /\ InSweep
    /\ spc = "done"
    /\ SweepSize = 2
    /\ \A k \in 1..2 : hist.children[k].error
    /\ StateOf(heap, rt.struct) = StrV("completed")

====
